---- MODULE Spec2Model ----
(***************************************************************************)
(* The RPC client pool (internal/rpc, RPCClientPool) and the RPC transport *)
(* (internal/rpc, RPCClient) of caaspay-api-go, as state machines.         *)
(*                                                                         *)
(* Spec    : the pool.  Handler tasks call GetClient / ReturnClient, the   *)
(*           scale-down ticker and Close run beside them, and the wait     *)
(*           goroutines GetClient spawns poll the pool.                    *)
(*                                                                         *)
(* SpecRPC : one transport.  Caller tasks run CallRPC on it, the backend   *)
(*           publishes response envelopes on its channel, and the broker's *)
(*           subscriber goroutine runs the callback Start registered.      *)
(*                                                                         *)
(* SpecTail    : the pool with room for a tail of two clients.             *)
(*                                                                         *)
(* SpecHandler : the HTTP handlers (route, health, status) on the pool,    *)
(*           one request per handler task; every GetClient and             *)
(*           ReturnClient of the pool is a handler's.                      *)
(*                                                                         *)
(* SpecCall    : one call as pure functions of its inputs, from            *)
(*           getServiceAndMethod to the envelope and the stream name.      *)
(*                                                                         *)
(* SpecCodec   : one envelope through each serialization and back.         *)
(*                                                                         *)
(* SpecRepeat  : SpecRPC with a backend that can answer a request twice.   *)
(*                                                                         *)
(* SpecBroker  : the broker's Subscribe / Unsubscribe and the transports'  *)
(*           Start / Close on top of them.                                 *)
(*                                                                         *)
(* SpecLife    : the pool with its lifecycle context and its two           *)
(*           background goroutines, under fair scheduling.                 *)
(*                                                                         *)
(* Granularity of the pool model: sync.Mutex is modelled explicitly.  A    *)
(* critical section that locks, computes and unlocks without blocking in   *)
(* between is one action.  GetClient is the one function that blocks (in   *)
(* its select) between Lock and the deferred Unlock, so it is the one      *)
(* function whose critical section spans several actions.                  *)
(*                                                                         *)
(* Granularity of the transport model: RPCClient.pending is a plain Go map *)
(* with no lock, so every access to it is two steps, its start and its     *)
(* end, and accesses of different goroutines can overlap.  An access that  *)
(* starts while a conflicting one is under way is a data race: the Go      *)
(* runtime may stop the process with "fatal error: concurrent map ..."     *)
(* (crashed), or the access may go through.                                *)
(***************************************************************************)
EXTENDS Integers, Sequences, FiniteSets, TLC

(***************************************************************************)
(* Bounds of the model.                                                    *)
(***************************************************************************)
NumProcs == 3         \* handler tasks calling the pool
MaxFleet == 2         \* largest configured maxClients
MaxPerClient == 1     \* largest configured maxRequestsPerClient
MaxCalls == 3         \* GetClient invocations in one behaviour

NumCallers == 2       \* tasks calling CallRPC on the transport
MaxMessages == 2      \* CallRPC invocations that build a request
MaxResponses == 1     \* envelopes the backend publishes

Procs == 1..NumProcs
Callers == 1..NumCallers
NoClient == 0         \* nil *RPCClient
NoOne == 0            \* the mutex is free

VARIABLES
    constructed,           \* NewRPCClientPool has returned
    initialClients,        \* RPCClientPool.initialClients
    maxClients,            \* RPCClientPool.maxClients
    maxRequestsPerClient,  \* RPCClientPool.maxRequestsPerClient
    scalingDown,           \* RPCClientPool.scalingDown
    clients,               \* RPCClientPool.clients: sequence of client ids
    activeRequests,        \* RPCClientPool.activeRequests: a map, client id -> count
    Subscribed,            \* the clients whose RPCClient.Subscribed is true
    mutex,                 \* RPCClientPool.mutex: NoOne, or the task holding it
    pc,                    \* where each handler task is
    timeout,               \* the timeout argument of the task's GetClient: 0 or 1 (positive)
    held,                  \* the client GetClient returned to the task
    waiter,                \* the wait goroutine of the task's current GetClient
    waitChan,              \* the client that goroutine is sending on waitChan
    leaked,                \* wait goroutines whose GetClient has returned
    freed,                 \* history: a slot was free at some moment of the task's wait
    calls,                 \* GetClient invocations so far
    nextId,                \* next fresh client identity (a new pointer)
    \* ---- one transport (RPCClient)
    transport,             \* "created", "subscribed" (c.Subscribed), "failed", "closed"
    pending,               \* RPCClient.pending: a map, message id -> response channel
    respChan,              \* the buffered (1) response channels, by channel identity
    stream,                \* message ids of the requests appended with XAdd
    channel,               \* envelopes published on the Whoami channel, not yet handled
    subscriber,            \* the subscriber goroutine running the Start callback
    cpc,                   \* where each caller task is in CallRPC
    cmid,                  \* request.MessageID of the caller's CallRPC
    cres,                  \* what the caller's CallRPC returned
    cresp,                 \* the envelope the caller received on its channel
    crashed,               \* the runtime stopped the process (concurrent map access)
    published,             \* envelopes the backend has published
    nextMid,               \* next fresh message id (uuid.New)
    \* ---- the HTTP handlers, one request per handler task
    hpc,                   \* where each handler task is in its handler
    hkind,                 \* which handler it runs: "route", "health" or "status"
    hstatus,               \* the HTTP status of its c.JSON reply (0: none yet)
    hbody,                 \* the body of that reply
    hcall,                 \* what its CallRPC met: the error, or the envelope's response field
    \* ---- one call, from the route to the stream
    step,                  \* "route", "call", "sent"; "off" outside SpecCall
    routeConfig,           \* RouteConfig.Service and RouteConfig.Method
    fullPath,              \* c.FullPath()
    whoami,                \* RPCClient.Whoami of the transport called
    now,                   \* time.Now() in CallRPC, in milliseconds
    callTimeout,           \* the variadic timeout argument of CallRPC (<<>>: none)
    service,               \* what getServiceAndMethod returned
    method,
    request,               \* the envelope NewRPCMessage built
    streamName,            \* the stream CallRPC appends to
    parked,                \* the duration of CallRPC's time.After
    \* ---- one envelope through a serialization
    message,               \* the envelope serialized
    wire,                  \* how it travelled ("none": not yet)
    decoded,               \* the envelope deserialized
    \* ---- the broker and the transports subscribed through it
    pubsubs,               \* RedisBroker.pubsubs: the channels with a PubSub stored
    clientSubscribed,      \* RPCClient.Subscribed of the transport of each Whoami
    known,                 \* history: channels a Subscribe has succeeded on
    gone,                  \* history: channels whose last successful call was Unsubscribe
    last,                  \* the last call on the broker or a transport, and its result
    \* ---- the pool's lifecycle context and its two background tasks
    cancelled,             \* p.ctx is done
    monitorTask,           \* monitorPoolStatus: "select", "lock", "done"
    scaleTask              \* scaleDownClients: "select", "lock", "done"

poolVars == <<constructed, initialClients, maxClients, maxRequestsPerClient,
              scalingDown, clients, activeRequests, Subscribed, mutex, pc,
              timeout, held, waiter, waitChan, leaked, freed, calls, nextId>>

cfgVars == <<initialClients, maxClients, maxRequestsPerClient, scalingDown>>

rpcVars == <<transport, pending, respChan, stream, channel, subscriber, cpc, cmid,
             cres, cresp, crashed, published, nextMid>>

handlerVars == <<hpc, hkind, hstatus, hbody, hcall>>

callVars == <<step, routeConfig, fullPath, whoami, now, callTimeout, service, method, request,
              streamName, parked>>

codecVars == <<message, wire, decoded>>

brokerVars == <<pubsubs, clientSubscribed, known, gone, last>>

lifeVars == <<cancelled, monitorTask, scaleTask>>

sideVars == <<brokerVars, lifeVars>>

appVars == <<handlerVars, callVars, codecVars, sideVars>>

vars == <<poolVars, rpcVars, appVars>>

(***************************************************************************)
(* Helpers on the pool's data.                                             *)
(***************************************************************************)
Range(s) == {s[i] : i \in 1..Len(s)}

\* p.activeRequests[client]: a Go map read, 0 when the key is absent
Active(ar, c) == IF c \in DOMAIN ar THEN ar[c] ELSE 0

\* p.activeRequests[client] = n (insert or overwrite)
MapSet(ar, c, n) == [k \in (DOMAIN ar) \cup {c} |-> IF k = c THEN n ELSE ar[k]]

\* delete(p.activeRequests, client)
MapDelete(ar, c) == [k \in (DOMAIN ar) \ {c} |-> ar[k]]

Min(S) == CHOOSE x \in S : \A y \in S : x <= y

\* the scan with > in place of <
FirstAvailable_Inverted(cl, ar) ==
    LET S == {i \in 1..Len(cl) : Active(ar, cl[i]) > maxRequestsPerClient}
    IN  IF S = {} THEN 0 ELSE Min(S)

\* the scan "for _, client := range p.clients { if active < max ..." with <= in
\* place of <
FirstAvailable_OffByOne(cl, ar) ==
    LET S == {i \in 1..Len(cl) : Active(ar, cl[i]) <= maxRequestsPerClient}
    IN  IF S = {} THEN 0 ELSE Min(S)

\* the scan from the end of the list
FirstAvailable_FromEnd(cl, ar) ==
    LET S == {i \in 1..Len(cl) : Active(ar, cl[i]) < maxRequestsPerClient}
    IN  IF S = {} THEN 0 ELSE CHOOSE i \in S : \A j \in S : j <= i

\* index of the first client of the list, in insertion order, below its cap
\* (0: none)
FirstAvailable(cl, ar) ==
    LET S == {i \in 1..Len(cl) : Active(ar, cl[i]) < maxRequestsPerClient}
    IN  IF S = {} THEN 0 ELSE Min(S)

\* the history variable: while a task is parked in GetClient's select, has any
\* client of the list been below its cap
Track(pcN, clN, arN) ==
    [p \in Procs |->
        IF pcN[p] = "select"
        THEN (IF pc[p] = "select" THEN freed[p] ELSE FALSE)
             \/ FirstAvailable(clN, arN) # 0
        ELSE FALSE]

(***************************************************************************)
(* NewRPCClientPool: the constructor's loop.  ok[i] is whether Start of    *)
(* the i-th client succeeds (broker.Subscribe can fail); a client whose    *)
(* Start fails is skipped.                                                 *)
(***************************************************************************)
RECURSIVE Started(_, _)
Started(n, ok) ==
    IF n = 0 THEN <<>>
    ELSE IF ok[n] THEN Append(Started(n - 1, ok), n) ELSE Started(n - 1, ok)

NewRPCClientPool ==
    /\ ~constructed
    /\ \E ok \in [1..initialClients -> BOOLEAN] :
          /\ clients' = Started(initialClients, ok)
          /\ activeRequests' = [c \in Range(Started(initialClients, ok)) |-> 0]
          /\ Subscribed' = Range(Started(initialClients, ok))
    /\ constructed' = TRUE
    /\ nextId' = initialClients + 1
    /\ freed' = Track(pc, clients', activeRequests')
    /\ UNCHANGED <<appVars, rpcVars, cfgVars, mutex, pc, timeout, held, waiter, waitChan, leaked, calls>>

(***************************************************************************)
(* GetClient.                                                              *)
(***************************************************************************)
\* a handler task calls GetClient(t) while another task holds the mutex: it
\* blocks in p.mutex.Lock().  (A call that finds the mutex free takes it in
\* the same step, see GetClient.)
GetClientCall(p) ==
    /\ constructed
    /\ pc[p] \in {"idle", "saturated"}
    /\ calls < MaxCalls
    /\ mutex # NoOne
    /\ \E t \in {0, 1} : timeout' = [timeout EXCEPT ![p] = t]
    /\ pc' = [pc EXCEPT ![p] = "lock"]
    /\ calls' = calls + 1
    /\ freed' = Track(pc', clients, activeRequests)
    /\ UNCHANGED <<appVars, rpcVars, constructed, cfgVars, clients, activeRequests, Subscribed, mutex,
                   held, waiter, waitChan, leaked, nextId>>

\* the timeout arguments with which task p can enter GetClient's critical
\* section now: that of its blocked call, or any for a new call
Entering(p) ==
    IF pc[p] = "lock" THEN {timeout[p]}
    ELSE IF constructed /\ pc[p] \in {"idle", "saturated"} /\ calls < MaxCalls
         THEN {0, 1}
         ELSE {}

\* the mutex in the state GetClient leaves it in when it parks in its select:
\* the deferred Unlock has not run
MutexWhileWaiting(p) == p

\* GetClient whose scale-up branch counts and returns the new client without
\* appending it to p.clients
GetClient_NoAppend(p) ==
    /\ mutex = NoOne
    /\ \E t \in Entering(p) :
       LET i == FirstAvailable(clients, activeRequests) IN
       IF i # 0
       THEN /\ activeRequests' = MapSet(activeRequests, clients[i],
                                        Active(activeRequests, clients[i]) + 1)
            /\ held' = [held EXCEPT ![p] = clients[i]]
            /\ pc' = [pc EXCEPT ![p] = "holding"]
            /\ timeout' = [timeout EXCEPT ![p] = 0]
            /\ UNCHANGED <<clients, Subscribed, mutex, waiter, nextId>>
       ELSE \E startOK \in BOOLEAN :
            IF Len(clients) < maxClients /\ startOK
            THEN \* scale up: a new started client with one active request
                 /\ clients' = clients
                 /\ activeRequests' = MapSet(activeRequests, nextId, 1)
                 /\ Subscribed' = Subscribed \cup {nextId}
                 /\ nextId' = nextId + 1
                 /\ held' = [held EXCEPT ![p] = nextId]
                 /\ pc' = [pc EXCEPT ![p] = "holding"]
                 /\ timeout' = [timeout EXCEPT ![p] = 0]
                 /\ UNCHANGED <<mutex, waiter>>
            ELSE \* spawn the wait goroutine and park in the select
                 /\ waiter' = [waiter EXCEPT ![p] = "sleep"]
                 /\ pc' = [pc EXCEPT ![p] = "select"]
                 /\ timeout' = [timeout EXCEPT ![p] = t]
                 /\ mutex' = MutexWhileWaiting(p)
                 /\ UNCHANGED <<clients, activeRequests, Subscribed, held, nextId>>
    /\ calls' = IF pc[p] = "lock" THEN calls ELSE calls + 1
    /\ freed' = Track(pc', clients', activeRequests')
    /\ UNCHANGED <<appVars, rpcVars, constructed, cfgVars, waitChan, leaked>>

\* GetClient whose scale-up branch adds the new client whatever Start returned
GetClient_IgnoresStartError(p) ==
    /\ mutex = NoOne
    /\ \E t \in Entering(p) :
       LET i == FirstAvailable(clients, activeRequests) IN
       IF i # 0
       THEN \* first scan: increment and return (deferred Unlock)
            /\ activeRequests' = MapSet(activeRequests, clients[i],
                                        Active(activeRequests, clients[i]) + 1)
            /\ held' = [held EXCEPT ![p] = clients[i]]
            /\ pc' = [pc EXCEPT ![p] = "holding"]
            /\ timeout' = [timeout EXCEPT ![p] = 0]
            /\ UNCHANGED <<clients, Subscribed, mutex, waiter, nextId>>
       ELSE \E startOK \in BOOLEAN :
            IF Len(clients) < maxClients
            THEN /\ clients' = Append(clients, nextId)
                 /\ activeRequests' = MapSet(activeRequests, nextId, 1)
                 /\ Subscribed' = IF startOK THEN Subscribed \cup {nextId}
                                  ELSE Subscribed
                 /\ nextId' = nextId + 1
                 /\ held' = [held EXCEPT ![p] = nextId]
                 /\ pc' = [pc EXCEPT ![p] = "holding"]
                 /\ timeout' = [timeout EXCEPT ![p] = 0]
                 /\ UNCHANGED <<mutex, waiter>>
            ELSE \* spawn the wait goroutine and park in the select
                 /\ waiter' = [waiter EXCEPT ![p] = "sleep"]
                 /\ pc' = [pc EXCEPT ![p] = "select"]
                 /\ timeout' = [timeout EXCEPT ![p] = t]
                 /\ mutex' = MutexWhileWaiting(p)
                 /\ UNCHANGED <<clients, activeRequests, Subscribed, held, nextId>>
    /\ calls' = IF pc[p] = "lock" THEN calls ELSE calls + 1
    /\ freed' = Track(pc', clients', activeRequests')
    /\ UNCHANGED <<appVars, rpcVars, constructed, cfgVars, waitChan, leaked>>

\* Lock, the first scan, the scale-up branch and, failing both, the spawn of
\* the wait goroutine
GetClient(p) ==
    /\ mutex = NoOne
    /\ \E t \in Entering(p) :
       LET i == FirstAvailable(clients, activeRequests) IN
       IF i # 0
       THEN \* first scan: increment and return (deferred Unlock)
            /\ activeRequests' = MapSet(activeRequests, clients[i],
                                        Active(activeRequests, clients[i]) + 1)
            /\ held' = [held EXCEPT ![p] = clients[i]]
            /\ pc' = [pc EXCEPT ![p] = "holding"]
            /\ timeout' = [timeout EXCEPT ![p] = 0]
            /\ UNCHANGED <<clients, Subscribed, mutex, waiter, nextId>>
       ELSE \E startOK \in BOOLEAN :
            IF Len(clients) < maxClients /\ startOK
            THEN \* scale up: a new started client with one active request
                 /\ clients' = Append(clients, nextId)
                 /\ activeRequests' = MapSet(activeRequests, nextId, 1)
                 /\ Subscribed' = Subscribed \cup {nextId}
                 /\ nextId' = nextId + 1
                 /\ held' = [held EXCEPT ![p] = nextId]
                 /\ pc' = [pc EXCEPT ![p] = "holding"]
                 /\ timeout' = [timeout EXCEPT ![p] = 0]
                 /\ UNCHANGED <<mutex, waiter>>
            ELSE \* spawn the wait goroutine and park in the select
                 /\ waiter' = [waiter EXCEPT ![p] = "sleep"]
                 /\ pc' = [pc EXCEPT ![p] = "select"]
                 /\ timeout' = [timeout EXCEPT ![p] = t]
                 /\ mutex' = MutexWhileWaiting(p)
                 /\ UNCHANGED <<clients, activeRequests, Subscribed, held, nextId>>
    /\ calls' = IF pc[p] = "lock" THEN calls ELSE calls + 1
    /\ freed' = Track(pc', clients', activeRequests')
    /\ UNCHANGED <<appVars, rpcVars, constructed, cfgVars, waitChan, leaked>>

\* the mutex after the deferred Unlock of a GetClient that parked in its select
Unlocked(p) == IF mutex = p THEN NoOne ELSE mutex

\* what GetClient's select can do: receive from waitChan when the wait
\* goroutine is blocked sending on it, or take time.After(timeout).  With no
\* clock in the model the timer may fire at any moment of the wait; with
\* timeout 0 it has fired when the select is reached.
SelectOutcomes(p) ==
    (IF waiter[p] = "send" THEN {"recv"} ELSE {}) \cup {"timeout"}

\* the timeout case of the select hands out the first client of the list
GetClientSelect_ReturnsClient(p) ==
    /\ pc[p] = "select"
    /\ held' = [held EXCEPT ![p] = IF Len(clients) > 0 THEN clients[1] ELSE NoClient]
    /\ pc' = [pc EXCEPT ![p] = "holding"]
    /\ leaked' = [leaked EXCEPT ![waiter[p]] = @ + 1]
    /\ waiter' = [waiter EXCEPT ![p] = "none"]
    /\ waitChan' = [waitChan EXCEPT ![p] = NoClient]
    /\ mutex' = Unlocked(p)
    /\ timeout' = [timeout EXCEPT ![p] = 0]
    /\ freed' = Track(pc', clients, activeRequests)
    /\ UNCHANGED <<appVars, rpcVars, constructed, cfgVars, clients, activeRequests, Subscribed,
                   calls, nextId>>

\* the select at the end of GetClient, then the deferred Unlock.  On timeout
\* the wait goroutine is not stopped: it lives on after GetClient has returned.
GetClientSelect(p) ==
    /\ pc[p] = "select"
    /\ \E o \in SelectOutcomes(p) :
          IF o = "recv"
          THEN /\ held' = [held EXCEPT ![p] = waitChan[p]]
               /\ pc' = [pc EXCEPT ![p] = "holding"]
               /\ UNCHANGED leaked
          ELSE /\ held' = [held EXCEPT ![p] = NoClient]
               /\ pc' = [pc EXCEPT ![p] = "saturated"]
               /\ leaked' = [leaked EXCEPT ![waiter[p]] = @ + 1]
    /\ waiter' = [waiter EXCEPT ![p] = "none"]
    /\ waitChan' = [waitChan EXCEPT ![p] = NoClient]
    /\ mutex' = Unlocked(p)
    /\ timeout' = [timeout EXCEPT ![p] = 0]
    /\ freed' = Track(pc', clients, activeRequests)
    /\ UNCHANGED <<appVars, rpcVars, constructed, cfgVars, clients, activeRequests, Subscribed,
                   calls, nextId>>

(***************************************************************************)
(* The wait goroutine of GetClient: Sleep, Lock, scan, Unlock, and on a    *)
(* hit the send on the unbuffered waitChan.  g is a task whose GetClient   *)
(* is parked in its select, or Orphan for a goroutine whose GetClient has  *)
(* returned.  A scan that finds nothing changes nothing and is left out.   *)
(***************************************************************************)
Orphan == 0

WaitGoroutine(g) ==
    /\ IF g = Orphan THEN leaked["sleep"] > 0 ELSE waiter[g] = "sleep"
    /\ mutex = NoOne
    /\ LET i == FirstAvailable(clients, activeRequests) IN
       /\ i # 0
       /\ activeRequests' = MapSet(activeRequests, clients[i],
                                   Active(activeRequests, clients[i]) + 1)
       /\ IF g = Orphan
          THEN \* nobody receives from its waitChan any more: blocked for good
               /\ leaked' = [leaked EXCEPT !["sleep"] = @ - 1, !["send"] = @ + 1]
               /\ UNCHANGED <<waiter, waitChan>>
          ELSE /\ waiter' = [waiter EXCEPT ![g] = "send"]
               /\ waitChan' = [waitChan EXCEPT ![g] = clients[i]]
               /\ UNCHANGED leaked
    /\ freed' = Track(pc, clients, activeRequests')
    /\ UNCHANGED <<appVars, rpcVars, constructed, cfgVars, clients, Subscribed, mutex, pc, timeout,
                   held, calls, nextId>>

(***************************************************************************)
(* ReturnClient.                                                           *)
(***************************************************************************)
\* the handler's deferred ReturnClient(client) while another task holds the
\* mutex: it blocks in p.mutex.Lock()
ReturnClientCall(p) ==
    /\ pc[p] = "holding"
    /\ mutex # NoOne
    /\ pc' = [pc EXCEPT ![p] = "release"]
    /\ freed' = Track(pc', clients, activeRequests)
    /\ UNCHANGED <<appVars, rpcVars, constructed, cfgVars, clients, activeRequests, Subscribed, mutex,
                   timeout, held, waiter, waitChan, leaked, calls, nextId>>

ReturnClient(p) ==
    /\ pc[p] \in {"holding", "release"}
    /\ mutex = NoOne
    /\ activeRequests' =
          IF Active(activeRequests, held[p]) > 0
          THEN MapSet(activeRequests, held[p], Active(activeRequests, held[p]) - 1)
          ELSE activeRequests
    /\ pc' = [pc EXCEPT ![p] = "idle"]
    /\ held' = [held EXCEPT ![p] = NoClient]
    /\ freed' = Track(pc', clients, activeRequests')
    /\ UNCHANGED <<appVars, rpcVars, constructed, cfgVars, clients, Subscribed, mutex, timeout,
                   waiter, waitChan, leaked, calls, nextId>>

(***************************************************************************)
(* RPCClient.Close as the pool sees it: a subscribed client unsubscribes   *)
(* unless broker.Unsubscribe fails (ok = FALSE); a client that is not      *)
(* subscribed returns nil at once.                                         *)
(***************************************************************************)
CloseReturnsNil(sub, c, ok) == c \notin sub \/ ok

(***************************************************************************)
(* scaleDownClients: one tick of the ticker with scalingDown set.  The     *)
(* loop runs i from len(clients)-1 down to initialClients (0-based); here  *)
(* i is 1-based.  st = <<clients, activeRequests, Subscribed>>.            *)
(***************************************************************************)
\* a truncation that keeps the client at the index
Truncate_KeepsIndex(cl, i) == SubSeq(cl, 1, i)

\* p.clients[:i] for the 0-based index i of the loop, i here being 1-based
Truncate(cl, i) == SubSeq(cl, 1, i - 1)

RECURSIVE ScaleDownLoop(_, _, _)
ScaleDownLoop(i, st, ok) ==
    IF i <= initialClients THEN st
    ELSE LET cl == st[1]
             ar == st[2]
             sub == st[3]
             c == cl[i]
         IN  IF Active(ar, c) = 0 /\ CloseReturnsNil(sub, c, ok[c])
             THEN \* p.clients = p.clients[:i]; delete(p.activeRequests, client)
                  ScaleDownLoop(i - 1,
                                <<Truncate(cl, i), MapDelete(ar, c), sub \ {c}>>,
                                ok)
             ELSE ScaleDownLoop(i - 1, st, ok)

ScaleDownPass ==
    /\ constructed
    /\ scalingDown
    /\ mutex = NoOne
    /\ Len(clients) > initialClients
    /\ \E ok \in [Range(clients) -> BOOLEAN] :
          LET st == ScaleDownLoop(Len(clients),
                                  <<clients, activeRequests, Subscribed>>, ok)
          IN  /\ clients' = st[1]
              /\ activeRequests' = st[2]
              /\ Subscribed' = st[3]
    /\ freed' = Track(pc, clients', activeRequests')
    /\ UNCHANGED <<handlerVars, callVars, codecVars, brokerVars, rpcVars, constructed,
                   cfgVars, mutex, pc, timeout, held, waiter, waitChan, leaked, calls,
                   nextId>>

\* a tick of scaleDownClients that finds the mutex free, from Lock to Unlock
scaleDownClients ==
    /\ ScaleDownPass
    /\ UNCHANGED lifeVars

(***************************************************************************)
(* RPCClientPool.Close: under the mutex, Close every client of the list;   *)
(* the errors are dropped and the list is left as it is.                   *)
(***************************************************************************)
Close ==
    /\ constructed
    /\ mutex = NoOne
    /\ \E ok \in [Range(clients) -> BOOLEAN] :
          Subscribed' = Subscribed \ {c \in Range(clients) : ok[c]}
    /\ UNCHANGED <<appVars, rpcVars, constructed, cfgVars, clients, activeRequests, mutex, pc, timeout,
                   held, waiter, waitChan, leaked, freed, calls, nextId>>

(***************************************************************************)
(* The transport: RPCClient.                                               *)
(***************************************************************************)
NoId == 0             \* no message id; also an id this transport never issued
NoEnvelope == [MessageID |-> NoId, Response |-> NoId]    \* nil *RPCMessage
Idle == [pc |-> "idle", msg |-> NoEnvelope, ch |-> NoId]

\* a JSON value of a decoded envelope: its dynamic type and its content
Json(type, val) == [type |-> type, val |-> val]

\* the envelope shapes the backend publishes: well formed, message_id not a
\* string, response not an object
Shapes == {<<"string", "object">>, <<"number", "object">>, <<"string", "string">>}

\* MapToRPCMessage / FromMap, on the two fields the transport uses: a field
\* is taken when its type assertion succeeds and keeps its zero value
\* otherwise
MapToRPCMessage(data) ==
    [MessageID |-> IF data.message_id.type = "string"
                   THEN data.message_id.val ELSE NoId,
     Response  |-> IF data.response.type = "object"
                   THEN data.response.val ELSE NoId]

\* the caller tasks inside an insert into, or a delete from, c.pending
Writing == {p \in Callers : cpc[p] \in {"insert", "delete"}}

\* the subscriber callback is inside its lookup in c.pending
Reading == subscriber.pc = "lookup"

\* what starting a map access does to the process: with a conflicting access
\* under way the runtime may stop it
RaceOutcomes(conflict) == IF conflict THEN {FALSE, TRUE} ELSE {FALSE}

\* RPCClient.Start: broker.Subscribe registers the callback, or fails
Start ==
    /\ ~crashed
    /\ transport = "created"
    /\ \E ok \in BOOLEAN : transport' = IF ok THEN "subscribed" ELSE "failed"
    /\ UNCHANGED <<appVars, poolVars, pending, respChan, stream, channel, subscriber, cpc,
                   cmid, cres, cresp, crashed, published, nextMid>>

\* RPCClient.Close on a subscribed transport: broker.Unsubscribe succeeds and
\* Subscribed becomes false, or it fails and Subscribed stays true
ClientClose ==
    /\ ~crashed
    /\ transport = "subscribed"
    /\ \E ok \in BOOLEAN : transport' = IF ok THEN "closed" ELSE "subscribed"
    /\ UNCHANGED <<appVars, poolVars, pending, respChan, stream, channel, subscriber, cpc,
                   cmid, cres, cresp, crashed, published, nextMid>>

\* CallRPC without the check of c.Subscribed
CallRPC_Unchecked(p) ==
    /\ ~crashed
    /\ cpc[p] \in {"idle", "done"}
    /\ nextMid <= MaxMessages
    /\ cmid' = [cmid EXCEPT ![p] = nextMid]
    /\ nextMid' = nextMid + 1
    /\ respChan' = MapSet(respChan, nextMid, <<>>)
    /\ cpc' = [cpc EXCEPT ![p] = "insert"]
    /\ cres' = [cres EXCEPT ![p] = "none"]
    /\ cresp' = [cresp EXCEPT ![p] = NoEnvelope]
    /\ \E c \in RaceOutcomes(Writing # {} \/ Reading) : crashed' = c
    /\ UNCHANGED <<appVars, poolVars, transport, pending, stream, channel, subscriber,
                   published>>

\* CallRPC with the outbound append placed before the registration of the slot
CallRPC_AppendFirst(p) ==
    /\ ~crashed
    /\ cpc[p] \in {"idle", "done"}
    /\ transport = "subscribed"
    /\ nextMid <= MaxMessages
    /\ cmid' = [cmid EXCEPT ![p] = nextMid]
    /\ nextMid' = nextMid + 1
    /\ respChan' = MapSet(respChan, nextMid, <<>>)
    /\ stream' = stream \cup {nextMid}
    /\ cpc' = [cpc EXCEPT ![p] = "insert"]
    /\ cres' = [cres EXCEPT ![p] = "none"]
    /\ cresp' = [cresp EXCEPT ![p] = NoEnvelope]
    /\ \E c \in RaceOutcomes(Writing # {} \/ Reading) : crashed' = c
    /\ UNCHANGED <<appVars, poolVars, transport, pending, channel, subscriber, published>>

\* CallRPC up to "c.pending[messageID] = respChan": the Subscribed check, the
\* request with its fresh message id, the response channel, and the start of
\* the insert into c.pending
CallRPC(p) ==
    /\ ~crashed
    /\ cpc[p] \in {"idle", "done"}
    /\ IF transport # "subscribed"
       THEN /\ cpc' = [cpc EXCEPT ![p] = "done"]
            /\ cres' = [cres EXCEPT ![p] = "NotStarted"]
            /\ cmid' = [cmid EXCEPT ![p] = NoId]
            /\ cresp' = [cresp EXCEPT ![p] = NoEnvelope]
            /\ UNCHANGED <<respChan, crashed, nextMid>>
       ELSE /\ nextMid <= MaxMessages
            /\ cmid' = [cmid EXCEPT ![p] = nextMid]
            /\ nextMid' = nextMid + 1
            /\ respChan' = MapSet(respChan, nextMid, <<>>)
            /\ cpc' = [cpc EXCEPT ![p] = "insert"]
            /\ cres' = [cres EXCEPT ![p] = "none"]
            /\ cresp' = [cresp EXCEPT ![p] = NoEnvelope]
            /\ \E c \in RaceOutcomes(Writing # {} \/ Reading) : crashed' = c
    /\ UNCHANGED <<appVars, poolVars, transport, pending, stream, channel, subscriber,
                   published>>

\* the insert into c.pending completes
CallRPCInsert(p) ==
    /\ ~crashed
    /\ cpc[p] = "insert"
    /\ pending' = MapSet(pending, cmid[p], cmid[p])
    /\ cpc' = [cpc EXCEPT ![p] = "xadd"]
    /\ UNCHANGED <<appVars, poolVars, transport, respChan, stream, channel, subscriber, cmid,
                   cres, cresp, crashed, published, nextMid>>

\* broker.XAdd: the envelope is appended to the stream, or XAdd fails and
\* CallRPC returns its error
CallRPCXAdd(p) ==
    /\ ~crashed
    /\ cpc[p] = "xadd"
    /\ \E ok \in BOOLEAN :
          IF ok
          THEN /\ stream' = stream \cup {cmid[p]}
               /\ cpc' = [cpc EXCEPT ![p] = "select"]
               /\ UNCHANGED cres
          ELSE /\ cpc' = [cpc EXCEPT ![p] = "done"]
               /\ cres' = [cres EXCEPT ![p] = "XAddError"]
               /\ UNCHANGED stream
    /\ UNCHANGED <<appVars, poolVars, transport, pending, respChan, channel, subscriber, cmid,
                   cresp, crashed, published, nextMid>>

\* the select of CallRPC without its time.After case
CallOutcomes_NoDeadline(p) ==
    IF respChan[cmid[p]] # <<>> THEN {"recv"} ELSE {}

\* what CallRPC's select can do: receive from respChan when it holds an
\* envelope, or take time.After(effectiveTimeout), which is positive and may
\* fire at any moment of the wait
CallOutcomes(p) ==
    (IF respChan[cmid[p]] # <<>> THEN {"recv"} ELSE {}) \cup {"timeout"}

\* the select of CallRPC and the start of the delete from c.pending that
\* follows either case
CallRPCSelect(p) ==
    /\ ~crashed
    /\ cpc[p] = "select"
    /\ \E o \in CallOutcomes(p) :
          IF o = "recv"
          THEN /\ cresp' = [cresp EXCEPT ![p] = Head(respChan[cmid[p]])]
               /\ respChan' = [respChan EXCEPT ![cmid[p]] = Tail(@)]
               /\ cres' = [cres EXCEPT ![p] = "ok"]
          ELSE /\ cres' = [cres EXCEPT ![p] = "CallTimeout"]
               /\ UNCHANGED <<cresp, respChan>>
    /\ cpc' = [cpc EXCEPT ![p] = "delete"]
    /\ \E c \in RaceOutcomes((Writing \ {p}) # {} \/ Reading) : crashed' = c
    /\ UNCHANGED <<appVars, poolVars, transport, pending, stream, channel, subscriber, cmid,
                   published, nextMid>>

\* delete(c.pending, messageID) is left out
CallRPCDelete_Forgotten(p) ==
    /\ ~crashed
    /\ cpc[p] = "delete"
    /\ cpc' = [cpc EXCEPT ![p] = "done"]
    /\ UNCHANGED <<appVars, poolVars, transport, pending, respChan, stream, channel, subscriber,
                   cmid, cres, cresp, crashed, published, nextMid>>

\* delete(c.pending, messageID) completes and CallRPC returns
CallRPCDelete(p) ==
    /\ ~crashed
    /\ cpc[p] = "delete"
    /\ pending' = MapDelete(pending, cmid[p])
    /\ cpc' = [cpc EXCEPT ![p] = "done"]
    /\ UNCHANGED <<appVars, poolVars, transport, respChan, stream, channel, subscriber, cmid,
                   cres, cresp, crashed, published, nextMid>>

\* the backend publishes a response envelope on the transport's channel: the
\* reply to a request of the stream, in any order and possibly again, or an
\* envelope with a message id the transport never issued; the goroutine of
\* Subscribe has decoded its JSON
BackendReply ==
    /\ ~crashed
    /\ transport = "subscribed"
    /\ published < MaxResponses
    /\ \E m \in stream \cup {NoId}, sh \in Shapes :
          channel' = Append(channel, [message_id |-> Json(sh[1], m),
                                      response   |-> Json(sh[2], m)])
    /\ published' = published + 1
    /\ UNCHANGED <<appVars, poolVars, transport, pending, respChan, stream, subscriber, cpc,
                   cmid, cres, cresp, crashed, nextMid>>

\* the backend publishes once more than BackendReply does: a response can
\* follow a response with the same message id
BackendRepeat ==
    /\ ~crashed
    /\ transport = "subscribed"
    /\ published < MaxResponses + 1
    /\ \E m \in stream \cup {NoId}, sh \in Shapes :
          channel' = Append(channel, [message_id |-> Json(sh[1], m),
                                      response   |-> Json(sh[2], m)])
    /\ published' = published + 1
    /\ UNCHANGED <<appVars, poolVars, transport, pending, respChan, stream, subscriber, cpc,
                   cmid, cres, cresp, crashed, nextMid>>

\* the subscriber goroutine takes the next envelope and the callback starts
\* its lookup in c.pending
SubscriberReceive ==
    /\ ~crashed
    /\ subscriber.pc = "idle"
    /\ channel # <<>>
    /\ subscriber' = [pc |-> "lookup", msg |-> MapToRPCMessage(Head(channel)),
                      ch |-> NoId]
    /\ channel' = Tail(channel)
    /\ \E c \in RaceOutcomes(Writing # {}) : crashed' = c
    /\ UNCHANGED <<appVars, poolVars, transport, pending, respChan, stream, cpc, cmid, cres,
                   cresp, published, nextMid>>

\* the lookup hands back whatever channel is registered, whatever its key
SubscriberLookup_AnySlot ==
    /\ ~crashed
    /\ subscriber.pc = "lookup"
    /\ IF DOMAIN pending # {}
       THEN \E k \in DOMAIN pending :
               subscriber' = [subscriber EXCEPT !.pc = "send", !.ch = pending[k]]
       ELSE subscriber' = Idle
    /\ UNCHANGED <<appVars, poolVars, transport, pending, respChan, stream, channel, cpc, cmid,
                   cres, cresp, crashed, published, nextMid>>

\* "pendingChan, exists := c.pending[message.MessageID]": an envelope with no
\* entry is dropped
SubscriberLookup ==
    /\ ~crashed
    /\ subscriber.pc = "lookup"
    /\ IF subscriber.msg.MessageID \in DOMAIN pending
       THEN subscriber' = [subscriber EXCEPT !.pc = "send",
                                             !.ch = pending[subscriber.msg.MessageID]]
       ELSE subscriber' = Idle
    /\ UNCHANGED <<appVars, poolVars, transport, pending, respChan, stream, channel, cpc, cmid,
                   cres, cresp, crashed, published, nextMid>>

\* "pendingChan <- message": blocks while the channel's one-element buffer is
\* full
SubscriberSend ==
    /\ ~crashed
    /\ subscriber.pc = "send"
    /\ Len(respChan[subscriber.ch]) < 1
    /\ respChan' = [respChan EXCEPT ![subscriber.ch] = Append(@, subscriber.msg)]
    /\ subscriber' = Idle
    /\ UNCHANGED <<appVars, poolVars, transport, pending, stream, channel, cpc, cmid, cres,
                   cresp, crashed, published, nextMid>>

(***************************************************************************)
(* The HTTP handlers: the closure createHandler returns (routes.go) and    *)
(* HealthHandler / StatusHandler.  A handler task serves one request.  Its *)
(* GetClient and ReturnClient are the pool's actions above; CallRPC is     *)
(* taken as one step with the results the transport can give.              *)
(***************************************************************************)
\* the request each handler task serves: one to a configured route, one to
\* /health, one to /status, and so on in turn
HandlerOf(p) ==
    IF p % 3 = 1 THEN "route" ELSE IF p % 3 = 2 THEN "health" ELSE "status"

\* Go values held in an interface{}: the nil interface, a string, a
\* map[string]interface{}
Nil == Json("null", "")
String(s) == Json("string", s)
Object(f) == Json("object", f)

\* v.(map[string]interface{}) with the comma-ok form
IsMap(v) == v.type = "object"

\* what the comma-ok assertion leaves in a map-typed variable: the map, or
\* the zero value (a nil map)
AsMap(v) == IF IsMap(v) THEN v ELSE Nil

\* m[k] of a Go map: the nil interface when the key is absent or the map nil
Index(m, k) == IF IsMap(m) /\ k \in DOMAIN m.val THEN m.val[k] ELSE Nil

\* gin.H{"error": msg}
ErrorBody(msg) == Object([error |-> String(msg)])

\* gin.H{"status": s, "reason": r} and gin.H{"status": s}
StatusBody(s, r) == Object([status |-> String(s), reason |-> String(r)])
StatusOnly(s) == Object([status |-> String(s)])

\* the "response" field of the envelope the backend publishes, as the
\* subscriber's json.Unmarshal delivers it: absent, or an object
ResponseFields ==
    { Nil,
      Object([ok |-> String("1")]),
      Object([response |-> Object([ok |-> String("1")])]),
      Object([response |-> String("text")]) }

NoCall == [made |-> FALSE, err |-> "", field |-> Nil]

\* what CallRPC on client c can meet: the error it returns, or the response
\* field of the envelope delivered to it
CallResults(c) ==
    IF c \notin Subscribed
    THEN {[made |-> TRUE, err |-> "client is not subscribed to channel", field |-> Nil]}
    ELSE {[made |-> TRUE, err |-> e, field |-> Nil] :
             e \in {"failed to add message to stream", "rpc call timeout"}}
         \cup {[made |-> TRUE, err |-> "", field |-> f] : f \in ResponseFields}

\* what CallRPC returns on delivery: resp.Response, which FromMap set from the
\* field only if the field is a map
Returned(r) == AsMap(r.field)

\* the reply of the route handler after CallRPC: <<status, body>>
Reply(r) ==
    IF r.err # ""
    THEN <<500, ErrorBody(r.err)>>
    ELSE LET innerResponse == Index(Returned(r), "response") IN
         IF ~IsMap(innerResponse)
         THEN <<500, ErrorBody("unexpected response structure")>>
         ELSE <<200, innerResponse>>

\* the 503 reply of each handler when GetClient fails
Unavailable(k) ==
    IF k = "route" THEN ErrorBody("all clients are busy")
    ELSE IF k = "health" THEN StatusBody("unhealthy", "RPC client unavailable")
    ELSE StatusBody("degraded", "RPC client issue")

\* the 200 reply of HealthHandler and StatusHandler
Healthy(k) == IF k = "health" THEN StatusOnly("healthy") ELSE StatusOnly("operational")

\* a handler that replies 400 and goes on to the pool all the same
HandlerEnter_NoReturn(p) ==
    /\ constructed
    /\ hpc[p] = "none"
    /\ \E valid \in BOOLEAN :
          /\ hkind' = [hkind EXCEPT ![p] = HandlerOf(p)]
          /\ hpc' = [hpc EXCEPT ![p] = "acquire"]
          /\ IF HandlerOf(p) = "route" /\ ~valid
             THEN /\ hstatus' = [hstatus EXCEPT ![p] = 400]
                  /\ hbody' = [hbody EXCEPT ![p] = ErrorBody("invalid parameter")]
             ELSE UNCHANGED <<hstatus, hbody>>
    /\ UNCHANGED <<sideVars, poolVars, rpcVars, callVars, codecVars, hcall>>

\* a request arrives.  The route handler validates its parameters first
\* (valid: whether validateAndExtractParams returns no error) and on an error
\* replies 400 and returns; the health and status handlers have no
\* parameters.
HandlerEnter(p) ==
    /\ constructed
    /\ hpc[p] = "none"
    /\ \E valid \in BOOLEAN :
          /\ hkind' = [hkind EXCEPT ![p] = HandlerOf(p)]
          /\ IF HandlerOf(p) = "route" /\ ~valid
             THEN /\ hstatus' = [hstatus EXCEPT ![p] = 400]
                  /\ hbody' = [hbody EXCEPT ![p] = ErrorBody("invalid parameter")]
                  /\ hpc' = [hpc EXCEPT ![p] = "replied"]
             ELSE /\ hpc' = [hpc EXCEPT ![p] = "acquire"]
                  /\ UNCHANGED <<hstatus, hbody>>
    /\ UNCHANGED <<sideVars, poolVars, rpcVars, callVars, codecVars, hcall>>

\* rpcClientPool.GetClient(5 * time.Second) (2 s in the health and status
\* handlers), blocked at the pool's mutex
HandlerLock(p) ==
    /\ hpc[p] = "acquire"
    /\ pc[p] = "idle"
    /\ GetClientCall(p)
    /\ timeout'[p] = 1

\* the same call entering GetClient's critical section
HandlerGetClient(p) ==
    /\ hpc[p] = "acquire"
    /\ pc[p] \in {"idle", "lock"}
    /\ GetClient(p)
    /\ pc'[p] = "select" => timeout'[p] = 1

\* the same call leaving GetClient's select
HandlerSelect(p) ==
    /\ hpc[p] = "acquire"
    /\ GetClientSelect(p)

\* the handler replies 500 where GetClient returned an error
HandlerUnavailable_InternalError(p) ==
    /\ hpc[p] = "acquire"
    /\ pc[p] = "saturated"
    /\ hstatus' = [hstatus EXCEPT ![p] = 500]
    /\ hbody' = [hbody EXCEPT ![p] = Unavailable(hkind[p])]
    /\ hpc' = [hpc EXCEPT ![p] = "replied"]
    /\ UNCHANGED <<sideVars, poolVars, rpcVars, callVars, codecVars, hkind, hcall>>

\* GetClient returned an error: reply 503 and return
HandlerUnavailable(p) ==
    /\ hpc[p] = "acquire"
    /\ pc[p] = "saturated"
    /\ hstatus' = [hstatus EXCEPT ![p] = 503]
    /\ hbody' = [hbody EXCEPT ![p] = Unavailable(hkind[p])]
    /\ hpc' = [hpc EXCEPT ![p] = "replied"]
    /\ UNCHANGED <<sideVars, poolVars, rpcVars, callVars, codecVars, hkind, hcall>>

\* the route handler without the defer: ReturnClient only at the end of the
\* success path
HandlerServe_NoDefer(p) ==
    /\ hpc[p] = "acquire"
    /\ pc[p] = "holding"
    /\ IF hkind[p] = "route"
       THEN \E r \in CallResults(held[p]) :
               /\ hcall' = [hcall EXCEPT ![p] = r]
               /\ hstatus' = [hstatus EXCEPT ![p] = Reply(r)[1]]
               /\ hbody' = [hbody EXCEPT ![p] = Reply(r)[2]]
               /\ hpc' = [hpc EXCEPT ![p] = IF Reply(r)[1] = 200 THEN "return" ELSE "replied"]
       ELSE /\ hpc' = [hpc EXCEPT ![p] = "return"]
            /\ UNCHANGED <<hcall, hstatus, hbody>>
    /\ UNCHANGED <<sideVars, poolVars, rpcVars, callVars, codecVars, hkind>>

\* GetClient returned a client.  The route handler defers ReturnClient, calls
\* CallRPC(service, method, args) and replies; what is left is the deferred
\* ReturnClient.  The health and status handlers go straight to ReturnClient.
HandlerServe(p) ==
    /\ hpc[p] = "acquire"
    /\ pc[p] = "holding"
    /\ IF hkind[p] = "route"
       THEN \E r \in CallResults(held[p]) :
               /\ hcall' = [hcall EXCEPT ![p] = r]
               /\ hstatus' = [hstatus EXCEPT ![p] = Reply(r)[1]]
               /\ hbody' = [hbody EXCEPT ![p] = Reply(r)[2]]
       ELSE UNCHANGED <<hcall, hstatus, hbody>>
    /\ hpc' = [hpc EXCEPT ![p] = "return"]
    /\ UNCHANGED <<sideVars, poolVars, rpcVars, callVars, codecVars, hkind>>

\* rpcClientPool.ReturnClient(client), blocked at the pool's mutex
HandlerReturnCall(p) ==
    /\ hpc[p] = "return"
    /\ ReturnClientCall(p)

\* the same call in its critical section
HandlerReturnClient(p) ==
    /\ hpc[p] = "return"
    /\ ReturnClient(p)

\* ReturnClient has returned in the health or status handler: reply 200
HandlerHealthy(p) ==
    /\ hpc[p] = "return"
    /\ pc[p] = "idle"
    /\ hkind[p] # "route"
    /\ hstatus' = [hstatus EXCEPT ![p] = 200]
    /\ hbody' = [hbody EXCEPT ![p] = Healthy(hkind[p])]
    /\ hpc' = [hpc EXCEPT ![p] = "replied"]
    /\ UNCHANGED <<sideVars, poolVars, rpcVars, callVars, codecVars, hkind, hcall>>

\* the handler returns: after its reply, or, in the route handler, after the
\* deferred ReturnClient.  The request is over and its context is recycled.
HandlerDone(p) ==
    /\ \/ hpc[p] = "replied"
       \/ hpc[p] = "return" /\ pc[p] = "idle" /\ hkind[p] = "route"
    /\ hpc' = [hpc EXCEPT ![p] = "done"]
    /\ hkind' = [hkind EXCEPT ![p] = "none"]
    /\ hstatus' = [hstatus EXCEPT ![p] = 0]
    /\ hbody' = [hbody EXCEPT ![p] = Nil]
    /\ hcall' = [hcall EXCEPT ![p] = NoCall]
    /\ UNCHANGED <<sideVars, poolVars, rpcVars, callVars, codecVars>>

(***************************************************************************)
(* One call, from the route to the stream: getServiceAndMethod, then the   *)
(* part of CallRPC that builds the envelope and names the stream.  Strings *)
(* are sequences of characters; times and durations are in milliseconds.   *)
(***************************************************************************)
MaxSegments == 3      \* longest route path, in segments

Second == 1000        \* time.Second, in milliseconds

\* strings.ReplaceAll(s, old, new) for one-character old and new
ReplaceAll(s, old, new) == [i \in 1..Len(s) |-> IF s[i] = old THEN new ELSE s[i]]

RECURSIVE TrimLeft(_, _)
TrimLeft(s, c) == IF s # <<>> /\ Head(s) = c THEN TrimLeft(Tail(s), c) ELSE s

RECURSIVE TrimRight(_, _)
TrimRight(s, c) ==
    IF s # <<>> /\ s[Len(s)] = c THEN TrimRight(SubSeq(s, 1, Len(s) - 1), c) ELSE s

\* strings.Trim(s, c) for a one-character cutset
Trim(s, c) == TrimRight(TrimLeft(s, c), c)

\* strings.Split(s, c): the pieces between the separators; one piece, s
\* itself, when s holds no separator (so Split("", c) is one empty piece)
RECURSIVE Split(_, _)
Split(s, c) ==
    LET at == {i \in 1..Len(s) : s[i] = c} IN
    IF at = {} THEN <<s>>
    ELSE <<SubSeq(s, 1, Min(at) - 1)>> \o Split(SubSeq(s, Min(at) + 1, Len(s)), c)

\* strings.Join(parts, c)
RECURSIVE Join(_, _)
Join(parts, c) ==
    IF parts = <<>> THEN <<>>
    ELSE IF Len(parts) = 1 THEN parts[1]
    ELSE parts[1] \o <<c>> \o Join(Tail(parts), c)

\* the segments route paths are made of, and the lists of them
Segments == {<<"a">>, <<"b", "_", "c">>}

RECURSIVE SegLists(_)
SegLists(n) ==
    IF n = 0 THEN {<<>>}
    ELSE SegLists(n - 1) \cup {Append(l, s) : l \in SegLists(n - 1), s \in Segments}

\* the route pattern made of the segments, with or without a trailing slash
PathOf(segs, trailing) ==
    <<"/">> \o Join(segs, "/") \o (IF trailing /\ segs # <<>> THEN <<"/">> ELSE <<>>)

\* the route configurations: service and method, either of them possibly ""
RouteConfigs ==
    [Service : {<<>>, <<"s">>, <<"s", "_", "t">>}, Method : {<<>>, <<"m">>}]

\* the derivation with the whole path as service: every part joined, the
\* last part the method as well
getServiceAndMethod_WholePath(cfg, path) ==
    IF cfg.Service # <<>> /\ cfg.Method # <<>>
    THEN <<ReplaceAll(cfg.Service, "_", "."), cfg.Method>>
    ELSE LET pathParts == Split(Trim(path, "/"), "/")
             n == Len(pathParts)
         IN  IF n = 1 /\ pathParts[1] = <<>>
             THEN <<<<"a", "p", "i">>, <<"r", "e", "q", "u", "e", "s", "t">>>>
             ELSE IF n = 1
             THEN <<pathParts[1], <<"r", "e", "q", "u", "e", "s", "t">>>>
             ELSE <<Join(pathParts, "."), pathParts[n]>>

\* getServiceAndMethod: <<service, method>>
getServiceAndMethod(cfg, path) ==
    IF cfg.Service # <<>> /\ cfg.Method # <<>>
    THEN <<ReplaceAll(cfg.Service, "_", "."), cfg.Method>>
    ELSE LET pathParts == Split(Trim(path, "/"), "/")
             n == Len(pathParts)
         IN  IF n = 1 /\ pathParts[1] = <<>>
             THEN <<<<"a", "p", "i">>, <<"r", "e", "q", "u", "e", "s", "t">>>>
             ELSE IF n = 1
             THEN <<pathParts[1], <<"r", "e", "q", "u", "e", "s", "t">>>>
             ELSE <<Join(SubSeq(pathParts, 1, n - 1), "."), pathParts[n]>>

\* the handler works out the service and the method of its route
Route ==
    /\ step = "route"
    /\ service' = getServiceAndMethod(routeConfig, fullPath)[1]
    /\ method' = getServiceAndMethod(routeConfig, fullPath)[2]
    /\ step' = "call"
    /\ UNCHANGED <<sideVars, poolVars, rpcVars, handlerVars, codecVars, routeConfig, fullPath, whoami,
                   now, callTimeout, request, streamName, parked>>

\* t.Unix() of a time t in milliseconds
Unix(t) == t \div Second

DefaultTimeout == 120 * Second

\* the timeout CallRPC takes whatever the caller passes
EffectiveTimeout_AsPassed(t) == IF Len(t) > 0 THEN t[1] ELSE DefaultTimeout

\* effectiveTimeout of CallRPC for the variadic argument t
EffectiveTimeout(t) == IF Len(t) > 0 /\ t[1] > 0 THEN t[1] ELSE DefaultTimeout

EmptyMap == Object(<<>>)

\* NewRPCMessage, called at time at, with id the uuid it draws
NewRPCMessage(rpc, who, args, tmo, at, id) ==
    [RPC |-> rpc, MessageID |-> id, TransportID |-> "", Who |-> who,
     Deadline |-> Unix(at + tmo), Args |-> args,
     Response |-> EmptyMap, Stash |-> EmptyMap, Trace |-> EmptyMap]

\* the zero RPCMessage
ZeroMessage ==
    [RPC |-> "", MessageID |-> "", TransportID |-> "", Who |-> "",
     Deadline |-> 0, Args |-> Nil, Response |-> Nil, Stash |-> Nil, Trace |-> Nil]

\* CallRPC up to NewRPCMessage: the effective timeout and the envelope
CallRPCRequest ==
    /\ step = "call"
    /\ request' = NewRPCMessage(method, whoami, EmptyMap, EffectiveTimeout(callTimeout),
                                now, "m1")
    /\ step' = "xadd"
    /\ UNCHANGED <<sideVars, poolVars, rpcVars, handlerVars, codecVars, routeConfig, fullPath, whoami,
                   now, callTimeout, service, method, streamName, parked>>

\* fmt.Sprintf("service.%s.rpc/%s", service, rpc)
StreamName(svc, rpc) ==
    <<"s", "e", "r", "v", "i", "c", "e", ".">> \o svc \o <<".", "r", "p", "c", "/">> \o rpc

\* CallRPC from the stream name on: XAdd, then the select with
\* time.After(effectiveTimeout)
CallRPCAppend ==
    /\ step = "xadd"
    /\ streamName' = StreamName(service, request.RPC)
    /\ parked' = EffectiveTimeout(callTimeout)
    /\ step' = "sent"
    /\ UNCHANGED <<sideVars, poolVars, rpcVars, handlerVars, codecVars, routeConfig, fullPath, whoami,
                   now, callTimeout, service, method, request>>

(***************************************************************************)
(* One envelope through a serialization and back.  A value held in an      *)
(* interface{} carries its Go type: "string", "int64", "float64" (what     *)
(* json.Unmarshal makes of a number), "object" (a map[string]interface{}), *)
(* "null" (nil), and "text" (a string that holds the JSON encoding of its  *)
(* val).                                                                   *)
(***************************************************************************)
\* the maps the envelopes below carry; their values are strings
Payloads == {Nil, EmptyMap, Object([k |-> String("v")])}

\* the envelopes serialized
Envelopes ==
    [RPC : {"login"}, MessageID : {"m1"}, TransportID : {"", "t1"}, Who : {"w1"},
     Deadline : {0, 1700000000},
     Args : Payloads, Response : Payloads, Stash : {Nil, EmptyMap}, Trace : {Nil, EmptyMap}]

\* RPCMessage.ToMap
ToMap(m) ==
    [rpc |-> String(m.RPC), message_id |-> String(m.MessageID),
     transport_id |-> String(m.TransportID), who |-> String(m.Who),
     deadline |-> Json("int64", m.Deadline),
     args |-> m.Args, response |-> m.Response, stash |-> m.Stash, trace |-> m.Trace]

\* data[k] of a map[string]interface{}
Field(data, k) == IF k \in DOMAIN data THEN data[k] ELSE Nil

\* "if val, ok := data[k].(T); ok { field = val }" on a zero field
Checked(data, k, type, zero) ==
    IF Field(data, k).type = type THEN Field(data, k).val ELSE zero

\* RPCMessage.FromMap on the zero message (MapToRPCMessage)
FromMap(data) ==
    [RPC |-> Checked(data, "rpc", "string", ""),
     MessageID |-> Checked(data, "message_id", "string", ""),
     TransportID |-> Checked(data, "transport_id", "string", ""),
     Who |-> Checked(data, "who", "string", ""),
     Deadline |-> Checked(data, "deadline", "int64", 0),
     Args |-> AsMap(Field(data, "args")),
     Response |-> AsMap(Field(data, "response")),
     Stash |-> AsMap(Field(data, "stash")),
     Trace |-> AsMap(Field(data, "trace"))]

\* a value after json.Marshal and json.Unmarshal into an interface{}: a number
\* comes back as float64 (the maps here hold strings only)
Unmarshalled(v) == IF v.type = "int64" THEN Json("float64", v.val) ELSE v

\* a map published as JSON and decoded by the subscriber goroutine of
\* RedisBroker.Subscribe
Published(data) == [k \in DOMAIN data |-> Unmarshalled(data[k])]

\* the values RedisBroker.XAdd writes: a string as it is, anything else as the
\* string json.Marshal gives
Formatted(data) ==
    [k \in DOMAIN data |-> IF data[k].type = "string" THEN data[k] ELSE Json("text", data[k])]

\* a map-typed field is left out by omitempty when it is nil or empty
Omitted(v) == v = Nil \/ v = EmptyMap

\* the JSON document json.Marshal(m) writes, as the fields it holds
ToJSON(m) ==
    LET keys == {"rpc", "message_id", "who", "deadline", "args"}
                \cup (IF m.TransportID = "" THEN {} ELSE {"transport_id"})
                \cup (IF Omitted(m.Response) THEN {} ELSE {"response"})
                \cup (IF Omitted(m.Stash) THEN {} ELSE {"stash"})
                \cup (IF Omitted(m.Trace) THEN {} ELSE {"trace"})
    IN  [k \in keys |-> ToMap(m)[k]]

\* the same document with the map fields as JSON-encoded strings
Stringified(doc) ==
    [k \in DOMAIN doc |->
        IF k \in {"args", "response", "stash", "trace"} THEN Json("text", doc[k]) ELSE doc[k]]

\* json.Unmarshal into *RPCMessage refuses a string where a map field is
\* expected
Refused(doc) ==
    \E k \in {"args", "response", "stash", "trace"} :
        Field(doc, k).type \in {"string", "text"}

\* json.Unmarshal of an accepted document into the zero RPCMessage: a field
\* the document holds is set, a number filling the int64 deadline
Unmarshal(doc) ==
    [RPC |-> Checked(doc, "rpc", "string", ""),
     MessageID |-> Checked(doc, "message_id", "string", ""),
     TransportID |-> Checked(doc, "transport_id", "string", ""),
     Who |-> Checked(doc, "who", "string", ""),
     Deadline |-> IF Field(doc, "deadline").type \in {"int64", "float64"}
                  THEN Field(doc, "deadline").val ELSE 0,
     Args |-> AsMap(Field(doc, "args")),
     Response |-> AsMap(Field(doc, "response")),
     Stash |-> AsMap(Field(doc, "stash")),
     Trace |-> AsMap(Field(doc, "trace"))]

\* parseNestedJSON of a field of the struct: the field is map-typed, so the
\* string case never applies and the map comes back as it is
parseNestedJSON(field) == field

\* FromJSON: nil and an error when json.Unmarshal refuses the document
FromJSON(doc) ==
    IF Refused(doc)
    THEN [ok |-> FALSE, msg |-> ZeroMessage]
    ELSE [ok |-> TRUE,
          msg |-> [Unmarshal(doc) EXCEPT !.Args = parseNestedJSON(@),
                                          !.Response = parseNestedJSON(@),
                                          !.Stash = parseNestedJSON(@),
                                          !.Trace = parseNestedJSON(@)]]

\* the ways an envelope travels
Wires == {"map", "published", "stream", "json", "json-strings"}

\* the envelope deserialized after travelling by wire w
Deserialized(m, w) ==
    IF w = "map" THEN [ok |-> TRUE, msg |-> FromMap(ToMap(m))]
    ELSE IF w = "published" THEN [ok |-> TRUE, msg |-> FromMap(Published(ToMap(m)))]
    ELSE IF w = "stream" THEN [ok |-> TRUE, msg |-> FromMap(Formatted(ToMap(m)))]
    ELSE IF w = "json" THEN FromJSON(ToJSON(m))
    ELSE FromJSON(Stringified(ToJSON(m)))

\* ToMap, then FromMap on the same map
RoundTripMap ==
    /\ wire = "none"
    /\ wire' = "map"
    /\ decoded' = Deserialized(message, "map")
    /\ UNCHANGED <<sideVars, poolVars, rpcVars, handlerVars, callVars, message>>

\* ToMap, the JSON of the publish, the subscriber's json.Unmarshal, FromMap
RoundTripPublished ==
    /\ wire = "none"
    /\ wire' = "published"
    /\ decoded' = Deserialized(message, "published")
    /\ UNCHANGED <<sideVars, poolVars, rpcVars, handlerVars, callVars, message>>

\* ToMap, the values XAdd writes, FromMap
RoundTripStream ==
    /\ wire = "none"
    /\ wire' = "stream"
    /\ decoded' = Deserialized(message, "stream")
    /\ UNCHANGED <<sideVars, poolVars, rpcVars, handlerVars, callVars, message>>

\* ToJSON, FromJSON
RoundTripJSON ==
    /\ wire = "none"
    /\ wire' = "json"
    /\ decoded' = Deserialized(message, "json")
    /\ UNCHANGED <<sideVars, poolVars, rpcVars, handlerVars, callVars, message>>

\* ToJSON with the map fields as JSON-encoded strings, FromJSON
RoundTripJSONStrings ==
    /\ wire = "none"
    /\ wire' = "json-strings"
    /\ decoded' = Deserialized(message, "json-strings")
    /\ UNCHANGED <<sideVars, poolVars, rpcVars, handlerVars, callVars, message>>

(***************************************************************************)
(* The specifications.                                                     *)
(***************************************************************************)
\* the transport before Start
InitTransport ==
    /\ transport = "created"
    /\ pending = <<>>
    /\ respChan = <<>>
    /\ stream = {}
    /\ channel = <<>>
    /\ subscriber = Idle
    /\ cpc = [p \in Callers |-> "idle"]
    /\ cmid = [p \in Callers |-> NoId]
    /\ cres = [p \in Callers |-> "none"]
    /\ cresp = [p \in Callers |-> NoEnvelope]
    /\ crashed = FALSE
    /\ published = 0
    /\ nextMid = 1

\* the pool before NewRPCClientPool, with the sets its configuration is drawn
\* from
InitPool(fleets, caps, flags) ==
    /\ constructed = FALSE
    /\ maxClients \in fleets
    /\ initialClients \in 1..maxClients
    /\ maxRequestsPerClient \in caps
    /\ scalingDown \in flags
    /\ clients = <<>>
    /\ activeRequests = <<>>
    /\ Subscribed = {}
    /\ mutex = NoOne
    /\ pc = [p \in Procs |-> "idle"]
    /\ timeout = [p \in Procs |-> 0]
    /\ held = [p \in Procs |-> NoClient]
    /\ waiter = [p \in Procs |-> "none"]
    /\ waitChan = [p \in Procs |-> NoClient]
    /\ leaked = [s \in {"sleep", "send"} |-> 0]
    /\ freed = [p \in Procs |-> FALSE]
    /\ calls = 0
    /\ nextId = 1

(***************************************************************************)
(* The broker's subscriptions (redis_broker.go) and the transports on top  *)
(* of them: RPCClient.Start subscribes the transport's Whoami channel,      *)
(* RPCClient.Close unsubscribes it.                                         *)
(***************************************************************************)
NumChannels == 2

\* the Whoami of each transport, which is also its channel
Whoamis == 1..NumChannels

\* what the history says of a channel
Was(w) == IF w \in gone THEN "gone" ELSE IF w \in known THEN "live" ELSE "never"

NoOp == [op |-> "none", ch |-> 0, err |-> "nil", was |-> "never", sub |-> FALSE,
         called |-> FALSE]

\* RedisBroker.Subscribe: pubsub.Receive fails, or the PubSub is stored
SubscribeResult(ps, w, ok) ==
    IF ~ok THEN [pubsubs |-> ps, err |-> "SubscribeFailed"]
    ELSE [pubsubs |-> ps \cup {w}, err |-> "nil"]

\* RedisBroker.Unsubscribe: no PubSub stored for the channel; else
\* pubsub.Unsubscribe fails and the entry stays, or the entry is deleted
UnsubscribeResult(ps, w, ok) ==
    IF w \notin ps THEN [pubsubs |-> ps, err |-> "NotSubscribed"]
    ELSE IF ~ok THEN [pubsubs |-> ps, err |-> "UnsubscribeFailed"]
    ELSE [pubsubs |-> ps \ {w}, err |-> "nil"]

\* the histories after a call on channel w that returned err
Remember(op, w, err) ==
    /\ known' = IF op = "Subscribe" /\ err = "nil" THEN known \cup {w} ELSE known
    /\ gone' = IF err # "nil" THEN gone
               ELSE IF op = "Subscribe" THEN gone \ {w} ELSE gone \cup {w}

\* a call of the broker's Subscribe
Subscribe(w) ==
    \E ok \in BOOLEAN :
       LET r == SubscribeResult(pubsubs, w, ok)
       IN  /\ pubsubs' = r.pubsubs
           /\ Remember("Subscribe", w, r.err)
           /\ last' = [op |-> "Subscribe", ch |-> w, err |-> r.err, was |-> Was(w),
                       sub |-> clientSubscribed[w], called |-> TRUE]
           /\ UNCHANGED <<poolVars, rpcVars, handlerVars, callVars, codecVars, lifeVars,
                          clientSubscribed>>

\* a call of the broker's Unsubscribe
Unsubscribe(w) ==
    \E ok \in BOOLEAN :
       LET r == UnsubscribeResult(pubsubs, w, ok)
       IN  /\ pubsubs' = r.pubsubs
           /\ Remember("Unsubscribe", w, r.err)
           /\ last' = [op |-> "Unsubscribe", ch |-> w, err |-> r.err, was |-> Was(w),
                       sub |-> clientSubscribed[w], called |-> TRUE]
           /\ UNCHANGED <<poolVars, rpcVars, handlerVars, callVars, codecVars, lifeVars,
                          clientSubscribed>>

\* RPCClient.Start of the transport with Whoami w
RPCClientStart(w) ==
    \E ok \in BOOLEAN :
       LET r == SubscribeResult(pubsubs, w, ok)
       IN  /\ pubsubs' = r.pubsubs
           /\ Remember("Subscribe", w, r.err)
           /\ clientSubscribed' =
                 IF r.err = "nil" THEN [clientSubscribed EXCEPT ![w] = TRUE]
                 ELSE clientSubscribed
           /\ last' = [op |-> "Start", ch |-> w, err |-> r.err, was |-> Was(w),
                       sub |-> clientSubscribed[w], called |-> TRUE]
           /\ UNCHANGED <<poolVars, rpcVars, handlerVars, callVars, codecVars, lifeVars>>

\* Close that calls the broker whatever c.Subscribed is
CallsBroker_Always(sub) == TRUE

\* "if c.Subscribed" of Close
CallsBroker(sub) == sub

\* RPCClient.Close of the transport with Whoami w
RPCClientClose(w) ==
    \E ok \in BOOLEAN :
       IF CallsBroker(clientSubscribed[w])
       THEN LET r == UnsubscribeResult(pubsubs, w, ok)
            IN  /\ pubsubs' = r.pubsubs
                /\ Remember("Unsubscribe", w, r.err)
                /\ clientSubscribed' =
                      IF r.err = "nil" THEN [clientSubscribed EXCEPT ![w] = FALSE]
                      ELSE clientSubscribed
                /\ last' = [op |-> "Close", ch |-> w, err |-> r.err, was |-> Was(w),
                            sub |-> clientSubscribed[w], called |-> TRUE]
                /\ UNCHANGED <<poolVars, rpcVars, handlerVars, callVars, codecVars,
                               lifeVars>>
       ELSE /\ last' = [op |-> "Close", ch |-> w, err |-> "nil", was |-> Was(w),
                        sub |-> clientSubscribed[w], called |-> FALSE]
            /\ UNCHANGED <<poolVars, rpcVars, handlerVars, callVars, codecVars, lifeVars,
                           pubsubs, clientSubscribed, known, gone>>

(***************************************************************************)
(* The pool's lifecycle: p.ctx and the two goroutines NewRPCClientPool      *)
(* starts.  Each waits in a select on its ticker and on p.ctx.Done(); on a  *)
(* tick it locks the mutex, which blocks while a GetClient holds it.        *)
(***************************************************************************)
\* the context is cancelled
Cancel ==
    /\ ~cancelled
    /\ cancelled' = TRUE
    /\ UNCHANGED <<poolVars, rpcVars, handlerVars, callVars, codecVars, brokerVars,
                   monitorTask, scaleTask>>

\* monitorPoolStatus, case <-ticker.C: on to p.mutex.Lock()
MonitorTick ==
    /\ constructed
    /\ monitorTask = "select"
    /\ monitorTask' = "lock"
    /\ UNCHANGED <<poolVars, rpcVars, handlerVars, callVars, codecVars, brokerVars,
                   cancelled, scaleTask>>

\* monitorPoolStatus from Lock to Unlock: counts and logs, changes nothing
MonitorRun ==
    /\ monitorTask = "lock"
    /\ mutex = NoOne
    /\ monitorTask' = "select"
    /\ UNCHANGED <<poolVars, rpcVars, handlerVars, callVars, codecVars, brokerVars,
                   cancelled, scaleTask>>

\* the task ignores p.ctx.Done()
ExitOn_Never(done) == FALSE

\* case <-p.ctx.Done(): return
ExitOn(done) == done

MonitorExit ==
    /\ constructed
    /\ monitorTask = "select"
    /\ ExitOn(cancelled)
    /\ monitorTask' = "done"
    /\ UNCHANGED <<poolVars, rpcVars, handlerVars, callVars, codecVars, brokerVars,
                   cancelled, scaleTask>>

\* scaleDownClients, case <-ticker.C with p.scalingDown: on to p.mutex.Lock();
\* the goroutine exists only if the pool was built with scaleDown
ScaleDownTick ==
    /\ constructed
    /\ scalingDown
    /\ scaleTask = "select"
    /\ scaleTask' = "lock"
    /\ UNCHANGED <<poolVars, rpcVars, handlerVars, callVars, codecVars, brokerVars,
                   cancelled, monitorTask>>

\* scaleDownClients from Lock to Unlock with clients beyond initialClients
ScaleDownRun ==
    /\ scaleTask = "lock"
    /\ ScaleDownPass
    /\ scaleTask' = "select"
    /\ UNCHANGED <<cancelled, monitorTask>>

\* scaleDownClients from Lock to Unlock with nothing beyond initialClients
ScaleDownSkip ==
    /\ scaleTask = "lock"
    /\ mutex = NoOne
    /\ Len(clients) <= initialClients
    /\ scaleTask' = "select"
    /\ UNCHANGED <<poolVars, rpcVars, handlerVars, callVars, codecVars, brokerVars,
                   cancelled, monitorTask>>

ScaleDownExit ==
    /\ constructed
    /\ scalingDown
    /\ scaleTask = "select"
    /\ ExitOn(cancelled)
    /\ scaleTask' = "done"
    /\ UNCHANGED <<poolVars, rpcVars, handlerVars, callVars, codecVars, brokerVars,
                   cancelled, monitorTask>>

\* the broker with no subscription and transports not started
InitBroker ==
    /\ pubsubs = {}
    /\ clientSubscribed = [w \in Whoamis |-> FALSE]
    /\ known = {}
    /\ gone = {}
    /\ last = NoOp

\* the context live and both tasks, once started, in their select
InitTasks ==
    /\ cancelled = FALSE
    /\ monitorTask = "select"
    /\ scaleTask = "select"

\* no request has reached a handler
InitHandlers ==
    /\ hpc = [p \in Procs |-> "none"]
    /\ hkind = [p \in Procs |-> "none"]
    /\ hstatus = [p \in Procs |-> 0]
    /\ hbody = [p \in Procs |-> Nil]
    /\ hcall = [p \in Procs |-> NoCall]

\* the variables of the single call and of the single envelope, at rest
CallOff ==
    /\ step = "off"
    /\ routeConfig = [Service |-> <<>>, Method |-> <<>>]
    /\ fullPath = <<"/">>
    /\ whoami = "w1"
    /\ now = 0
    /\ callTimeout = <<>>
    /\ service = <<>>
    /\ method = <<>>
    /\ request = ZeroMessage
    /\ streamName = <<>>
    /\ parked = 0

CodecOff ==
    /\ message = ZeroMessage
    /\ wire = "off"
    /\ decoded = [ok |-> FALSE, msg |-> ZeroMessage]

Init ==
    /\ InitPool(1..MaxFleet, 1..MaxPerClient, BOOLEAN)
    /\ InitTransport
    /\ InitHandlers
    /\ InitBroker
    /\ InitTasks
    /\ CallOff
    /\ CodecOff

Next ==
    \/ NewRPCClientPool
    \/ \E p \in Procs : GetClientCall(p)
    \/ \E p \in Procs : GetClient(p)
    \/ \E p \in Procs : GetClientSelect(p)
    \/ \E g \in Procs \cup {Orphan} : WaitGoroutine(g)
    \/ \E p \in Procs : ReturnClientCall(p)
    \/ \E p \in Procs : ReturnClient(p)
    \/ scaleDownClients
    \/ Close

Spec == Init /\ [][Next]_vars

\* the pool with room for two clients beyond the initial ones, so that a tick
\* of scale-down meets a tail of more than one client
InitTail ==
    /\ InitPool({MaxFleet + 1}, 1..MaxPerClient, {TRUE})
    /\ initialClients < MaxFleet
    /\ InitTransport
    /\ InitHandlers
    /\ InitBroker
    /\ InitTasks
    /\ CallOff
    /\ CodecOff

SpecTail == InitTail /\ [][Next]_vars

\* one transport on its own, the pool left unconstructed
NextRPC ==
    \/ Start
    \/ ClientClose
    \/ \E p \in Callers : CallRPC(p)
    \/ \E p \in Callers : CallRPCInsert(p)
    \/ \E p \in Callers : CallRPCXAdd(p)
    \/ \E p \in Callers : CallRPCSelect(p)
    \/ \E p \in Callers : CallRPCDelete(p)
    \/ BackendReply
    \/ SubscriberReceive
    \/ SubscriberLookup
    \/ SubscriberSend

InitRPC ==
    /\ InitPool({1}, {1}, {FALSE})
    /\ InitTransport
    /\ InitHandlers
    /\ InitBroker
    /\ InitTasks
    /\ CallOff
    /\ CodecOff

SpecRPC == InitRPC /\ [][NextRPC]_vars

\* the transport with a backend that can answer a request twice
NextRepeat ==
    \/ NextRPC
    \/ BackendRepeat

SpecRepeat == InitRPC /\ [][NextRepeat]_vars

\* the broker and the transports' Start and Close on it
NextBroker ==
    \/ \E w \in Whoamis : Subscribe(w)
    \/ \E w \in Whoamis : Unsubscribe(w)
    \/ \E w \in Whoamis : RPCClientStart(w)
    \/ \E w \in Whoamis : RPCClientClose(w)

SpecBroker == InitRPC /\ [][NextBroker]_vars

\* the pool with its context and its background tasks
NextLife ==
    \/ NewRPCClientPool
    \/ \E p \in Procs : GetClientCall(p)
    \/ \E p \in Procs : GetClient(p)
    \/ \E p \in Procs : GetClientSelect(p)
    \/ \E g \in Procs \cup {Orphan} : WaitGoroutine(g)
    \/ \E p \in Procs : ReturnClientCall(p)
    \/ \E p \in Procs : ReturnClient(p)
    \/ Close
    \/ Cancel
    \/ MonitorTick
    \/ MonitorRun
    \/ MonitorExit
    \/ ScaleDownTick
    \/ ScaleDownRun
    \/ ScaleDownSkip
    \/ ScaleDownExit

\* a GetClient holding the mutex in its select comes out of it (the select
\* has a time.After case); a task blocked in Lock gets the mutex (sync.Mutex
\* hands it to a starving waiter); a select with p.ctx.Done() ready takes that
\* case sooner or later
FairLife ==
    /\ \A p \in Procs : WF_vars(GetClientSelect(p))
    /\ SF_vars(MonitorRun)
    /\ SF_vars(ScaleDownRun \/ ScaleDownSkip)
    /\ SF_vars(MonitorExit)
    /\ SF_vars(ScaleDownExit)

SpecLife == Init /\ [][NextLife]_vars /\ FairLife

\* the handlers on the pool: every GetClient and ReturnClient is a handler's
NextHandler ==
    \/ NewRPCClientPool
    \/ \E p \in Procs : HandlerEnter(p)
    \/ \E p \in Procs : HandlerLock(p)
    \/ \E p \in Procs : HandlerGetClient(p)
    \/ \E p \in Procs : HandlerSelect(p)
    \/ \E g \in Procs \cup {Orphan} : WaitGoroutine(g)
    \/ \E p \in Procs : HandlerUnavailable(p)
    \/ \E p \in Procs : HandlerServe(p)
    \/ \E p \in Procs : HandlerReturnCall(p)
    \/ \E p \in Procs : HandlerReturnClient(p)
    \/ \E p \in Procs : HandlerHealthy(p)
    \/ \E p \in Procs : HandlerDone(p)
    \/ scaleDownClients
    \/ Close

SpecHandler == Init /\ [][NextHandler]_vars

\* the instants CallRPC runs at and the timeout arguments it is given: none,
\* zero, negative, below a second, a second and more
Instants == {0, 400, 1500, 1999}
TimeoutArgs == {<<>>, <<0>>, <<-1>>, <<300>>, <<500>>, <<1000>>, <<2500>>}

\* the route patterns: up to MaxSegments segments
Paths ==
    {PathOf(segs, t) : segs \in SegLists(MaxSegments), t \in BOOLEAN}

InitCall ==
    /\ InitPool({1}, {1}, {FALSE})
    /\ InitTransport
    /\ InitHandlers
    /\ InitBroker
    /\ InitTasks
    /\ CodecOff
    /\ step = "route"
    /\ routeConfig \in RouteConfigs
    /\ fullPath \in Paths
    /\ whoami \in {"w1", "w2"}
    /\ now \in Instants
    /\ callTimeout \in TimeoutArgs
    /\ service = <<>>
    /\ method = <<>>
    /\ request = ZeroMessage
    /\ streamName = <<>>
    /\ parked = 0

NextCall ==
    \/ Route
    \/ CallRPCRequest
    \/ CallRPCAppend

SpecCall == InitCall /\ [][NextCall]_vars

InitCodec ==
    /\ InitPool({1}, {1}, {FALSE})
    /\ InitTransport
    /\ InitHandlers
    /\ InitBroker
    /\ InitTasks
    /\ CallOff
    /\ message \in Envelopes
    /\ wire = "none"
    /\ decoded = [ok |-> FALSE, msg |-> ZeroMessage]

NextCodec ==
    \/ RoundTripMap
    \/ RoundTripPublished
    \/ RoundTripStream
    \/ RoundTripJSON
    \/ RoundTripJSONStrings

SpecCodec == InitCodec /\ [][NextCodec]_vars

(***************************************************************************)
(* Properties of the pool.                                                 *)
(***************************************************************************)
\* every client of the list is at its cap and the fleet is at maxClients
Saturated ==
    /\ constructed
    /\ Len(clients) = maxClients
    /\ FirstAvailable(clients, activeRequests) = 0

\* C1: in every reachable pool state every client of the client list has
\* 0 <= activeRequests[c] <= maxRequestsPerClient.
C1_ActiveWithinCap ==
    \A i \in 1..Len(clients) :
        /\ 0 <= Active(activeRequests, clients[i])
        /\ Active(activeRequests, clients[i]) <= maxRequestsPerClient

\* C1 witness: a client of the list is at its cap after an orphaned wait
\* goroutine has taken a slot and a client has been closed.
C1_Witness ==
    /\ leaked["send"] > 0
    /\ \E i \in 1..Len(clients) :
          Active(activeRequests, clients[i]) = maxRequestsPerClient
    /\ \E i \in 1..Len(clients) : clients[i] \notin Subscribed

\* C2 (as claimed): from construction onward, also when a Start fails during
\* construction, initialClients <= len(clients) <= maxClients.
C2_FleetWithinBounds ==
    constructed => /\ initialClients <= Len(clients)
                   /\ Len(clients) <= maxClients

\* C3 (as claimed): a GetClient waiting for a slot does not hold the pool
\* mutex.
C3_WaitReleasesMutex ==
    \A p \in Procs : pc[p] = "select" => mutex # p

\* C4 (as claimed): a GetClient waiting on the saturated pool does not time
\* out when a ReturnClient of a client of the pool has been called during its
\* wait: it is served.
C4_ServedOnRelease ==
    [][\A p \in Procs :
          (pc[p] = "select" /\ pc'[p] = "saturated")
          => ~ \E q \in Procs : pc[q] = "release" /\ held[q] \in Range(clients)]_vars

\* C5 (as claimed): once every successful acquire has been released and no
\* acquire is in progress, every active count is 0.
C5_AllReleasedAllZero ==
    (constructed /\ \A p \in Procs : pc[p] \in {"idle", "saturated"})
    => \A c \in DOMAIN activeRequests : activeRequests[c] = 0

\* C6: a GetClient during whose whole wait no client of the list was below its
\* cap leaves its select with the PoolSaturated error and no client.
C6_SaturatedTimesOut ==
    [][\A p \in Procs :
          (pc[p] = "select" /\ pc'[p] # "select" /\ ~freed[p])
          => (pc'[p] = "saturated" /\ held'[p] = NoClient)]_vars

\* C6 witness: a GetClient has returned PoolSaturated and the pool is still
\* saturated.
C6_Witness ==
    /\ Saturated
    /\ \E p \in Procs : pc[p] = "saturated" /\ held[p] = NoClient

\* C7 (as claimed): a GetClient(0) call on a saturated pool never has to wait
\* for another operation to finish.
C7_ZeroTimeoutNeverBlocked ==
    \A p \in Procs : ~ (pc[p] = "lock" /\ timeout[p] = 0 /\ Saturated)


(***************************************************************************)
(* Properties of the transport, under SpecRPC.                             *)
(***************************************************************************)

C9_TimeoutCleansSlot ==
    [][\A p \in Callers :
          /\ (cpc[p] = "select" /\ cpc'[p] # "select" /\ respChan[cmid[p]] = <<>>)
                => cres'[p] = "CallTimeout"
          /\ (cpc'[p] = "done" /\ cres'[p] = "CallTimeout")
                => (cmid'[p] \notin DOMAIN pending' /\ cresp'[p] = NoEnvelope)]_vars

\* a call whose request reached the stream has returned CallTimeout while the
\* other call's slot is still registered
C9_Witness ==
    \E p \in Callers :
       /\ cpc[p] = "done" /\ cres[p] = "CallTimeout"
       /\ cmid[p] \in stream
       /\ cmid[p] \notin DOMAIN pending
       /\ pending # <<>>

\* C10: the slot of a call is in the pending map before its envelope is
\* appended to the stream, and stays there for as long as the call waits, so
\* a response looked up at any moment of the wait finds it.
C10_SlotBeforeAppend ==
    [][/\ \A m \in stream' \ stream : m \in DOMAIN pending /\ pending[m] = m
       /\ \A p \in Callers :
             cpc'[p] = "select" =>
                (cmid'[p] \in DOMAIN pending' /\ pending'[cmid'[p]] = cmid'[p])]_vars

\* the callback has found the slot of a call that is waiting in its select
C10_Witness ==
    \E p \in Callers :
       /\ cpc[p] = "select"
       /\ subscriber.pc = "send"
       /\ subscriber.msg.MessageID = cmid[p]
       /\ subscriber.ch = cmid[p]

\* C11: a CallRPC entered while the transport is not subscribed (never
\* started, Start failed, or closed) returns NotStarted at once; it appends
\* nothing to the stream, adds no entry to the pending map and builds no
\* request.
C11_NotStartedRefused ==
    [][\A p \in Callers :
          (/\ cpc[p] \in {"idle", "done"}
           /\ transport # "subscribed"
           /\ <<cpc[p], cres[p], cmid[p]>> # <<cpc'[p], cres'[p], cmid'[p]>>)
          => /\ cpc'[p] = "done" /\ cres'[p] = "NotStarted" /\ cmid'[p] = NoId
             /\ stream' = stream /\ pending' = pending
             /\ respChan' = respChan /\ nextMid' = nextMid]_vars

\* a call on the closed transport was refused while another call, made before
\* Close, is still waiting for its response
C11_Witness ==
    /\ transport = "closed"
    /\ \E p, q \in Callers :
          /\ cpc[p] = "done" /\ cres[p] = "NotStarted"
          /\ cpc[q] = "select"

\* the next envelope of the channel carries a message id with no entry in the
\* pending map
UnknownNext ==
    /\ channel # <<>>
    /\ MapToRPCMessage(Head(channel)).MessageID \notin DOMAIN pending

\* C12 (as claimed): an inbound envelope whose message_id is not a key of the
\* pending map is dropped: handling it leaves the pending map, the response
\* channels and every caller unchanged, does not stop the process, and the
\* subscriber comes back ready for the next message.
C12_UnknownDropped ==
    [][/\ (subscriber.pc = "idle" /\ UnknownNext /\ subscriber'.pc = "lookup")
          => (~crashed' /\ pending' = pending /\ respChan' = respChan
              /\ cpc' = cpc /\ cres' = cres)
       /\ (subscriber.pc = "lookup" /\ subscriber' # subscriber
           /\ subscriber.msg.MessageID \notin DOMAIN pending)
          => (subscriber' = Idle /\ ~crashed' /\ pending' = pending
              /\ respChan' = respChan /\ cpc' = cpc /\ cres' = cres)]_vars

\* a CallRPC that has passed the Subscribed check and has not returned
InFlight(p) == cpc[p] \in {"insert", "xadd", "select", "delete"}

\* the next step of caller p's CallRPC
CallStep(p) ==
    CallRPCInsert(p) \/ CallRPCXAdd(p) \/ CallRPCSelect(p) \/ CallRPCDelete(p)

\* how far a CallRPC is from its return
Rank(at) ==
    CASE at = "insert" -> 4 [] at = "xadd" -> 3 [] at = "select" -> 2
      [] at = "delete" -> 1 [] OTHER -> 0

\* C13: no caller blocks forever across a Close of the transport: as long as
\* the process lives, a call in flight, Close having run or not, can always
\* take its next step (its select can always end, at its deadline if with
\* nothing else), and every step it takes brings it closer to its return.
C13_NoCallerBlocksForever ==
    /\ [](\A p \in Callers : (InFlight(p) /\ ~crashed) => ENABLED CallStep(p))
    /\ [][\A p \in Callers :
             (InFlight(p) /\ cpc'[p] # cpc[p]) => Rank(cpc'[p]) < Rank(cpc[p])]_vars

\* Close has unsubscribed the transport while a call waits in its select with
\* nothing delivered to it
C13_Witness ==
    /\ transport = "closed"
    /\ \E p \in Callers : cpc[p] = "select" /\ respChan[cmid[p]] = <<>>
    /\ channel = <<>> /\ subscriber = Idle

(***************************************************************************)
(* Properties of scale-down, under SpecTail.                               *)
(***************************************************************************)

\* C14 (as claimed): a client of the list with an active count above 0 is
\* never removed from the list, and never closed by a step that changes the
\* list, whatever the other clients of the tail are doing.
C14_BusyNeverRemoved ==
    [][\A c \in Range(clients) :
          Active(activeRequests, c) > 0
          => /\ c \in Range(clients')
             /\ (clients' # clients /\ c \in Subscribed) => c \in Subscribed']_vars

\* C15 (as claimed): every client of the client list is subscribed, in every
\* state with the mutex free, also after RPCClientPool.Close and after
\* scale-down ticks.
C15_ListSubscribed ==
    mutex = NoOne => \A i \in 1..Len(clients) : clients[i] \in Subscribed

\* C16: whenever an active count is raised, and whenever GetClient hands a
\* client to its caller, the client is in the client list at the moment of
\* the increment; and a client that has left the list never comes back.
C16_HandedOutFromList ==
    [][/\ \A c \in DOMAIN activeRequests' :
             Active(activeRequests', c) > Active(activeRequests, c)
             => c \in Range(clients')
       /\ \A p \in Procs :
             (held'[p] # NoClient /\ held'[p] # held[p])
             => \/ /\ held'[p] \in Range(clients')
                   /\ Active(activeRequests', held'[p])
                         > Active(activeRequests, held'[p])
                \/ held'[p] = waitChan[p]
       /\ \A c \in 1..(nextId - 1) :
             c \notin Range(clients) => c \notin Range(clients')]_vars

\* a task holds a client that GetClient added after scale-down had removed
\* the client before it: the list has a gap where a scaled-up client was
C16_Witness ==
    \E p \in Procs, i \in 1..(Len(clients) - 1) :
       /\ pc[p] = "holding" /\ held[p] = clients[i + 1]
       /\ \E c \in (initialClients + 1)..(nextId - 1) :
             clients[i] < c /\ c < clients[i + 1]

\* C17: after construction a client enters the list only in a step of
\* GetClient taken when every client of the list is at its cap and the list
\* is shorter than maxClients; the step appends exactly one client, started,
\* with an active count of 1, and hands it to the caller.
C17_ScaleUpOnlyWhenFull ==
    [][(constructed /\ Range(clients') \ Range(clients) # {})
       => /\ \A i \in 1..Len(clients) :
                Active(activeRequests, clients[i]) >= maxRequestsPerClient
          /\ Len(clients) < maxClients
          /\ \E c \in Range(clients') \ Range(clients) :
                /\ clients' = Append(clients, c)
                /\ c \in Subscribed'
                /\ Active(activeRequests', c) = 1
                /\ \E p \in Procs :
                      /\ pc[p] \in {"idle", "saturated", "lock"}
                      /\ pc'[p] = "holding" /\ held'[p] = c]_vars

\* GetClient has grown the list to maxClients and its caller holds the
\* client it added
C17_Witness ==
    /\ Len(clients) = maxClients /\ Len(clients) > initialClients
    /\ \E p \in Procs : pc[p] = "holding" /\ held[p] = clients[Len(clients)]
    /\ \A i \in 1..Len(clients) : Active(activeRequests, clients[i]) >= 1

\* task p enters the critical section of GetClient in this step
EntersGetClient(p) == pc[p] \in {"idle", "saturated", "lock"} /\ pc'[p] # pc[p]
                      /\ pc'[p] # "lock"

\* C18: when GetClient finds every client at its cap and room in the list but
\* Start of the new client fails, the client is discarded: the list, the
\* active counts and the subscribed clients are unchanged and GetClient goes
\* on to its waiting phase; no client whose Start failed enters the list.
C18_FailedStartDiscarded ==
    [][\A p \in Procs :
          /\ (EntersGetClient(p) /\ pc'[p] = "select")
             => /\ clients' = clients /\ activeRequests' = activeRequests
                /\ Subscribed' = Subscribed /\ nextId' = nextId
                /\ held'[p] = NoClient /\ waiter'[p] = "sleep"
          /\ (EntersGetClient(p) /\ clients' = clients
              /\ FirstAvailable(clients, activeRequests) = 0)
             => pc'[p] = "select"
          /\ EntersGetClient(p)
             => \A c \in Range(clients') \ Range(clients) : c \in Subscribed']_vars

\* a GetClient is in its waiting phase although the list has room: Start of
\* the client it created has failed
C18_Witness ==
    \E p \in Procs :
       /\ pc[p] = "select" /\ waiter[p] = "sleep"
       /\ Len(clients) < maxClients
       /\ Len(clients) > 0

\* C19 (as claimed): ReturnClient of a client that is no longer in the client
\* list is a no-op: it changes no active count and no other state of the pool.
C19_ReturnOfRemovedIsNoOp ==
    [][\A p \in Procs :
          (pc[p] \in {"holding", "release"} /\ pc'[p] = "idle"
           /\ held[p] \notin Range(clients))
          => /\ activeRequests' = activeRequests
             /\ clients' = clients
             /\ Subscribed' = Subscribed]_vars

\* the tasks to which client c is handed out
HeldBy(c) == {q \in Procs : pc[q] \in {"holding", "release"} /\ held[q] = c}

\* C20 (as claimed): after an acquire has returned PoolSaturated, a GetClient
\* made when a client of the list has a released slot (fewer holders than
\* its cap) succeeds, returns such a client and creates no new client.
C20_NextAcquireReusesFreedSlot ==
    [][\A p \in Procs :
          (/\ EntersGetClient(p)
           /\ \E q \in Procs : pc[q] = "saturated"
           /\ \E c \in Range(clients) : Cardinality(HeldBy(c)) < maxRequestsPerClient)
          => /\ pc'[p] = "holding"
             /\ held'[p] \in Range(clients)
             /\ Cardinality(HeldBy(held'[p])) < maxRequestsPerClient
             /\ clients' = clients]_vars

(***************************************************************************)
(* Properties of the handlers, under SpecHandler.                          *)
(***************************************************************************)
\* C21: a handler whose request fails parameter validation replies 400 with
\* an error body and never calls GetClient or ReturnClient: the step that
\* replies leaves the pool as it is (client list and active counts included),
\* and from the reply on the task takes no step in the pool.
C21_ValidationFailureSkipsPool ==
    [][\A p \in Procs :
          /\ (hstatus'[p] = 400 /\ hstatus[p] # 400)
             => /\ IsMap(hbody'[p]) /\ "error" \in DOMAIN hbody'[p].val
                /\ hpc[p] = "none" /\ hpc'[p] = "replied"
                /\ UNCHANGED poolVars
          /\ hstatus[p] = 400
             => /\ pc[p] = "idle" /\ pc'[p] = "idle"
                /\ held'[p] = NoClient
                /\ hpc'[p] \in {"replied", "done"}]_vars

\* a validation failure replied while the pool is in use by another handler
C21_Witness ==
    \E p \in Procs :
        /\ hstatus[p] = 400 /\ hpc[p] = "replied"
        /\ \E q \in Procs \ {p} : pc[q] = "holding" /\ Active(activeRequests, held[q]) > 0

\* C22: in every handler invocation (route, health, status) in which GetClient
\* succeeds, ReturnClient is called exactly once for that client on every
\* exit path, and never when GetClient failed.  The release stage is entered
\* only from a successful GetClient, ReturnClient runs only in that stage, the
\* stage is left only once ReturnClient has run, and a handler that is over
\* holds no client.
C22_ReleasedOnEveryExit ==
    /\ [](\A p \in Procs :
             hpc[p] = "done" => pc[p] \in {"idle", "saturated"} /\ held[p] = NoClient)
    /\ [][\A p \in Procs :
             /\ (hpc'[p] = "return" /\ hpc[p] # "return")
                => hpc[p] = "acquire" /\ pc[p] = "holding" /\ held[p] # NoClient
             /\ (pc[p] \in {"holding", "release"} /\ pc'[p] = "idle")
                => hpc[p] = "return"
             /\ (hpc[p] = "acquire" /\ pc[p] = "holding") => hpc'[p] \in {"acquire", "return"}
             /\ (hpc[p] = "return" /\ hpc'[p] # "return") => pc[p] = "idle"
             /\ pc[p] = "saturated" => pc'[p] = "saturated"]_vars

\* the route handler has released its client after an RPC that timed out
C22_Witness ==
    \E p \in Procs :
        /\ hkind[p] = "route" /\ hpc[p] = "return" /\ pc[p] = "idle"
        /\ hcall[p].err = "rpc call timeout" /\ hstatus[p] = 500

\* C23 (as claimed): when the backend replies to a call with an envelope whose
\* response field is the map R, the handler replies 200 with body R; a 500
\* "unexpected response structure" is produced only when the envelope has no
\* response map.
C23_BodyIsResponseMap ==
    \A p \in Procs :
        (hcall[p].made /\ hcall[p].err = "")
        => /\ IsMap(hcall[p].field)
              => hstatus[p] = 200 /\ hbody[p] = hcall[p].field
           /\ hbody[p] = ErrorBody("unexpected response structure")
              => ~IsMap(hcall[p].field)

\* the statuses of the claim C24, with "no other outcome" read as written:
\* 503 exactly for a failed GetClient, 500 exactly for CallRPC failing with the
\* call timeout or a broker error
C24_Original ==
    \A p \in Procs :
        hkind[p] = "route" /\ hpc[p] \in {"replied", "return"}
        => /\ hstatus[p] = 503 <=> pc[p] = "saturated"
           /\ hstatus[p] = 500
              <=> hcall[p].err \in {"failed to add message to stream", "rpc call timeout"}
           /\ hstatus[p] = 500 => hbody[p] = ErrorBody(hcall[p].err)

\* C24 (amended): the route handler replies 503 exactly when GetClient failed;
\* it replies 500 with the error's message exactly when CallRPC returned an
\* error (call timeout, broker error, or client not subscribed), and 500
\* "unexpected response structure" exactly when CallRPC returned a map that
\* holds no map under "response"; every other call replies 200.
C24_StatusOfOutcome ==
    \A p \in Procs :
        hkind[p] = "route" /\ hpc[p] \in {"replied", "return"}
        => LET r == hcall[p]
               malformed == r.made /\ r.err = "" /\ ~IsMap(Index(Returned(r), "response"))
           IN  /\ hstatus[p] = 503 <=> pc[p] = "saturated"
               /\ hstatus[p] = 500 <=> (r.made /\ r.err # "") \/ malformed
               /\ (r.made /\ r.err # "") => hbody[p] = ErrorBody(r.err)
               /\ malformed => hbody[p] = ErrorBody("unexpected response structure")
               /\ hstatus[p] = 200 <=> r.made /\ r.err = "" /\ ~malformed
               /\ hstatus[p] \in {200, 400, 500, 503}

\* the route handler has replied 500 to a call on a client that is not
\* subscribed
C24_Witness ==
    \E p \in Procs :
        /\ hkind[p] = "route" /\ hstatus[p] = 500
        /\ hcall[p].err = "client is not subscribed to channel"

\* C25 (as claimed): a handler's acquisition ends, with a client or with 503,
\* no later than its own timeout after it began, however many handlers wait
\* on the saturated pool: waiting acquisitions do not queue behind one
\* another.  No acquisition is blocked at the pool's mutex while another
\* acquisition is parked, for up to its whole timeout, in GetClient's select.
C25_NoQueueing ==
    \A p, q \in Procs :
        ~ /\ Saturated
          /\ hpc[p] = "acquire" /\ pc[p] = "lock"
          /\ hpc[q] = "acquire" /\ pc[q] = "select" /\ mutex = q

(***************************************************************************)
(* Properties of the envelope's serializations, under SpecCodec.           *)
(***************************************************************************)
\* a nil map and an empty map hold the same entries
Entries(v) == IF v = EmptyMap THEN Nil ELSE v

\* two envelopes are equal: the same rpc, message_id, transport_id, who and
\* deadline, and the same entries in args, response, stash and trace
Same(a, b) ==
    /\ a.RPC = b.RPC
    /\ a.MessageID = b.MessageID
    /\ a.TransportID = b.TransportID
    /\ a.Who = b.Who
    /\ a.Deadline = b.Deadline
    /\ Entries(a.Args) = Entries(b.Args)
    /\ Entries(a.Response) = Entries(b.Response)
    /\ Entries(a.Stash) = Entries(b.Stash)
    /\ Entries(a.Trace) = Entries(b.Trace)

\* C26 (as claimed): serializing an envelope and deserializing the result
\* yields an equal envelope, when the maps travel as native maps, when they
\* travel as JSON-encoded strings, and when the map has passed through the
\* JSON decoding of the broker's subscriber (the deadline a JSON number).
C26_RoundTrip ==
    wire \in Wires => decoded.ok /\ Same(decoded.msg, message)

(***************************************************************************)
(* Properties of one call, under SpecCall.                                 *)
(***************************************************************************)
\* C27 (as claimed): in every envelope CallRPC produces, who is the Whoami of
\* the transport and the deadline, in whole seconds, is strictly greater than
\* the second the envelope was created in, for every positive timeout,
\* sub-second ones included.
C27_WhoAndDeadline ==
    step \in {"xadd", "sent"}
    => /\ request.Who = whoami
       /\ EffectiveTimeout(callTimeout) > 0 => request.Deadline > Unix(now)

\* C28 (as claimed): CallRPC(service, method, ...) appends to the stream
\* service.<S>.rpc/<method>, <S> being the service it was passed with every
\* underscore replaced by a dot, whether the service was configured or
\* derived from the path.
C28_StreamName ==
    step = "sent" => streamName = StreamName(ReplaceAll(service, "_", "."), method)

\* C29: for a route without a configured service and method,
\* getServiceAndMethod derives them from the path: the root path gives
\* (api, request), a path of one segment gives (<segment>, request), and a
\* path of n >= 2 segments gives the first n-1 segments joined by dots as the
\* service and the last segment as the method.
C29_DerivedFromPath ==
    (step # "route" /\ (routeConfig.Service = <<>> \/ routeConfig.Method = <<>>))
    => \A segs \in SegLists(MaxSegments), t \in BOOLEAN :
          fullPath = PathOf(segs, t)
          => LET n == Len(segs) IN
             /\ n = 0 => /\ service = <<"a", "p", "i">>
                          /\ method = <<"r", "e", "q", "u", "e", "s", "t">>
             /\ n = 1 => /\ service = segs[1]
                          /\ method = <<"r", "e", "q", "u", "e", "s", "t">>
             /\ n >= 2 => /\ service = Join(SubSeq(segs, 1, n - 1), ".")
                           /\ method = segs[n]

\* a path of three segments, one of them with an underscore, has been split
\* into a dotted service and a method
C29_Witness ==
    /\ step = "call"
    /\ routeConfig.Service = <<>>
    /\ fullPath = <<"/", "a", "/", "b", "_", "c", "/", "a">>
    /\ service = <<"a", ".", "b", "_", "c">>
    /\ method = <<"a">>

\* the claim C30 as written: the default for no timeout and for zero, the
\* caller's timeout for every other value
C30_Original ==
    step = "sent"
    => LET t == IF callTimeout = <<>> \/ callTimeout[1] = 0
                THEN DefaultTimeout ELSE callTimeout[1]
       IN  parked = t /\ request.Deadline = Unix(now + t)

\* C30 (amended): CallRPC uses 120 s when the caller passes no timeout, zero
\* or a negative timeout, and the caller's timeout when it is positive; the
\* same effective timeout sets the envelope's deadline and the time the
\* caller is parked.
C30_EffectiveTimeout ==
    step = "sent"
    => LET t == IF callTimeout = <<>> \/ callTimeout[1] <= 0
                THEN 120 * Second ELSE callTimeout[1]
       IN  parked = t /\ request.Deadline = Unix(now + t)

\* a call with a timeout of zero is parked for the default
C30_Witness ==
    /\ step = "sent"
    /\ callTimeout = <<0>>
    /\ parked = 120 * Second
    /\ request.Deadline = Unix(now) + 120

(***************************************************************************)
(* Further properties of scale-down, under SpecTail.                       *)
(***************************************************************************)
\* the clients scale-down may remove: those past the first initialClients
Surplus == {clients[i] : i \in (initialClients + 1)..Len(clients)}

\* C32 (as claimed): in a scale-down tick, a client whose Close returns an
\* error stays in the client list with its active-count entry, also when
\* idle clients at lower indices of the tail are removed in the same tick.
\* (An idle subscribed client of the tail that is still subscribed after the
\* tick is one whose Close returned an error.)
C32_FailedCloseStays ==
    [][scaleDownClients
       => \A c \in Surplus :
             (Active(activeRequests, c) = 0 /\ c \in Subscribed /\ c \in Subscribed')
             => c \in Range(clients') /\ c \in DOMAIN activeRequests']_vars

\* C33: with scale-down enabled and the fleet above initialClients, a tick
\* that finds every client of the tail idle and closes each without error
\* leaves len(clients) = initialClients, every removed client closed
\* (unsubscribed) and without an active-count entry; and no tick closes or
\* removes one of the first initialClients clients.
C33_IdleTailRemoved ==
    [][scaleDownClients
       => /\ ((\A c \in Surplus : Active(activeRequests, c) = 0) /\ Surplus \cap Subscribed' = {})
             => /\ Len(clients') = initialClients
                /\ \A c \in Surplus : c \notin Subscribed' /\ c \notin DOMAIN activeRequests'
          /\ SubSeq(clients', 1, initialClients) = SubSeq(clients, 1, initialClients)
          /\ \A c \in Range(clients) \ Surplus :
                /\ c \in Subscribed <=> c \in Subscribed'
                /\ Active(activeRequests', c) = Active(activeRequests, c)]_vars

\* a tail of two clients has been removed: the fleet had grown by two and is
\* back at initialClients, the removed clients unsubscribed
C33_Witness ==
    /\ constructed /\ scalingDown
    /\ Len(clients) = initialClients
    /\ nextId > Len(clients) + 2
    /\ Subscribed \subseteq Range(clients)
    /\ DOMAIN activeRequests = Range(clients)

(***************************************************************************)
(* Further properties of the pool, under Spec.                             *)
(***************************************************************************)
\* C34: on its first scan GetClient selects the lowest-index client, in
\* insertion order, whose active count is below maxRequestsPerClient,
\* increments that client's counter by exactly one and leaves every other
\* counter and the client list unchanged.
C34_FirstScanSelectsLowest ==
    [][\A p \in Procs :
          (/\ pc[p] \in {"idle", "saturated", "lock"}
           /\ pc'[p] = "holding"
           /\ \E i \in 1..Len(clients) :
                 Active(activeRequests, clients[i]) < maxRequestsPerClient)
          => \E i \in 1..Len(clients) :
                /\ Active(activeRequests, clients[i]) < maxRequestsPerClient
                /\ \A j \in 1..(i - 1) :
                      Active(activeRequests, clients[j]) >= maxRequestsPerClient
                /\ held'[p] = clients[i]
                /\ Active(activeRequests', clients[i])
                      = Active(activeRequests, clients[i]) + 1
                /\ \A c \in (DOMAIN activeRequests \cup DOMAIN activeRequests')
                             \ {clients[i]} :
                      Active(activeRequests', c) = Active(activeRequests, c)
                /\ clients' = clients]_vars

\* a task holds the second client of the initial list, which the scan gave it
\* because the first was at its cap
C34_Witness ==
    /\ initialClients = 2 /\ Len(clients) = 2 /\ nextId = 3
    /\ Active(activeRequests, clients[1]) = maxRequestsPerClient
    /\ \E p \in Procs : pc[p] = "holding" /\ held[p] = clients[2]
    /\ leaked = [s \in {"sleep", "send"} |-> 0]
    /\ \A p \in Procs : waiter[p] = "none"

RECURSIVE SumOver(_, _)
SumOver(f, S) ==
    IF S = {} THEN 0
    ELSE LET x == CHOOSE y \in S : TRUE IN f[x] + SumOver(f, S \ {x})

\* C39 (as claimed): a GetClient that returns PoolSaturated has no lasting
\* effect on the pool: no active count is incremented later on its behalf,
\* so the sum of the active counts always equals the number of clients held
\* by callers that got them from a successful GetClient and have not
\* released them (a client that a wait goroutine has counted for a GetClient
\* still waiting is taken as held).
C39_CountsMatchHolders ==
    SumOver(activeRequests, DOMAIN activeRequests)
       = Cardinality({p \in Procs : pc[p] \in {"holding", "release"}})
         + Cardinality({p \in Procs : waiter[p] = "send"})

(***************************************************************************)
(* Further properties of the transport, under SpecRPC.                     *)
(***************************************************************************)
\* C36 (as claimed): accesses to the pending map are mutually exclusive: the
\* subscriber callback never looks the map up while a CallRPC task inserts or
\* deletes an entry, and no two CallRPC tasks mutate it at the same time.
C36_PendingExclusive ==
    /\ ~(Reading /\ Writing # {})
    /\ Cardinality(Writing) <= 1

\* C35 (as claimed), under SpecRepeat: delivering to a pending slot never
\* blocks the subscriber: for every interleaving of a delivery, a duplicate
\* response for the same message id included, with the caller's timeout, the
\* callback returns and the subscriber goes on to later responses: it is
\* never blocked in "pendingChan <- message" on a full channel that no CallRPC
\* will receive from any more.
C35_SubscriberNeverStuck ==
    ~(/\ ~crashed
      /\ subscriber.pc = "send"
      /\ Len(respChan[subscriber.ch]) >= 1
      /\ \A p \in Callers :
            cmid[p] = subscriber.ch => ~(cpc[p] \in {"insert", "xadd", "select"}))

\* C40 (as claimed): after CallRPC has returned, with any outcome, a failed
\* XAdd included, the pending map holds no entry for the call's message id:
\* the map holds entries only for calls in progress.
C40_NoEntryAfterReturn ==
    /\ \A p \in Callers : cpc[p] = "done" => cmid[p] \notin DOMAIN pending
    /\ \A k \in DOMAIN pending : \E p \in Callers : InFlight(p) /\ cmid[p] = k

(***************************************************************************)
(* Properties of the broker's subscriptions, under SpecBroker.             *)
(***************************************************************************)
\* C31 (as claimed): the broker's Unsubscribe is idempotent after success: on
\* a channel whose last successful call was an Unsubscribe it succeeds
\* again, and on a channel never subscribed it fails with NotSubscribed.
C31_UnsubscribeIdempotent ==
    last.op = "Unsubscribe"
    => /\ last.was = "gone" => last.err = "nil"
       /\ last.was = "never" => last.err = "NotSubscribed"

\* C37: RPCClient.Close on a subscribed transport calls the broker's
\* Unsubscribe; if that succeeds Close returns nil, Subscribed is false and
\* the channel's subscription is gone; if it fails Close returns the error
\* and Subscribed stays true; on a transport that is not subscribed Close
\* returns nil without calling the broker and changes nothing.
C37_CloseBySubscribed ==
    /\ [](last.op = "Close"
          => /\ last.called <=> last.sub
             /\ (last.sub /\ last.err = "nil")
                => ~clientSubscribed[last.ch] /\ last.ch \notin pubsubs
             /\ (last.sub /\ last.err # "nil") => clientSubscribed[last.ch]
             /\ ~last.sub => last.err = "nil" /\ ~clientSubscribed[last.ch])
    /\ [][\A w \in Whoamis :
            (last'.op = "Close" /\ last'.ch = w /\ ~clientSubscribed[w])
            => pubsubs' = pubsubs /\ clientSubscribed' = clientSubscribed]_vars

\* a second Close, after a Close that unsubscribed the transport
C37_Witness ==
    /\ last.op = "Close" /\ ~last.sub /\ ~last.called
    /\ last.was = "gone"
    /\ last.ch \notin pubsubs

(***************************************************************************)
(* Termination of the background tasks, under SpecLife.                    *)
(***************************************************************************)
\* both tasks of a constructed pool have returned
TasksDone == monitorTask = "done" /\ (scalingDown => scaleTask = "done")

\* C38: once the pool's context is cancelled, the monitoring task and the
\* scale-down task each terminate eventually, and a task that has terminated
\* stays so; after the scale-down task has terminated no client is removed
\* from the list.
C38_TasksTerminate ==
    /\ (cancelled /\ constructed) ~> TasksDone
    /\ [][/\ monitorTask = "done" => monitorTask' = "done"
          /\ scaleTask = "done" => scaleTask' = "done" /\ Len(clients') >= Len(clients)]_vars

\* the context of a pool that had grown beyond initialClients has been
\* cancelled and both tasks have returned
C38_Witness ==
    /\ cancelled /\ constructed /\ scalingDown
    /\ TasksDone
    /\ Len(clients) > initialClients


==============================================================================
